---- MODULE Spec2Model ----
(***************************************************************************)
(* Repository governance policy engine                                     *)
(* (tools/validation/repo_governance_validator.py).                        *)
(*                                                                         *)
(* Text is modelled as a sequence of tokens, each token an indivisible     *)
(* run of characters: the path "archive/old.txt" is                        *)
(* <<"archive", "/", "old.txt">>, so str.startswith / str.endswith / "in"  *)
(* are prefix, suffix and infix tests on token sequences.                  *)
(***************************************************************************)
EXTENDS Integers, Sequences, FiniteSets, TLC

VARIABLES
    pc,             \* position of the running code
    ctx,            \* the ValidationContext under construction / evaluation
    result,         \* the ValidationResult of evaluate_context
    edits,          \* EvalSpec: number of field assignments made to ctx
    mode,           \* cli: (mode, base_ref, head_ref) of detect_diff_mode
    changed_files,  \* cli: local changed_files
    deleted_files,  \* cli: local deleted_files
    calls,          \* cli: VCS calls, file reads and evaluator calls, in order
    output,         \* cli: what was printed, in order
    cli_return,     \* cli: the return value (-1 while cli has not returned)
    repo_docs,      \* the required governance documents that exist on disk
    vcs,            \* DiffSpec: the environment and the finished VCS commands
                    \* the last resolver step read
    all_tracked_files,  \* scanners: the tracked_files argument
    disk,           \* scanners: the files under root, by relative path
    lines,          \* ExtractSpec: the argument of extract_operation_blocks
    operations,     \* ExtractSpec: what extract_operation_blocks returned
    frame,          \* LoopSpec: the locals index and current_path of
                    \* extract_operation_blocks, between two iterations
    heap,           \* ReevalSpec: the list objects allocated so far, by address
    evaluations,    \* ReevalSpec: the calls of evaluate_context so far: the
                    \* context passed and the addresses of the returned lists
    verdict         \* ParameterSpec: what operation_requires_dpop or
                    \* spec_has_required_dpop_parameter returned, "none" before

vars == <<pc, ctx, result, edits, mode, changed_files, deleted_files,
          calls, output, cli_return, repo_docs,
          vcs, all_tracked_files, disk, lines, operations,
          frame, heap, evaluations, verdict>>

(***************************************************************************)
(* Bounds of the model                                                     *)
(***************************************************************************)
MaxEdits == 3
MaxSettingsLen == 4
MaxDiff == 1
MaxDiffLines == 2
MaxLines == 4
MaxChunks == 4
MaxContentLines == 2
MaxCalls == 2
MaxLineLen == 5

(***************************************************************************)
(* Policy rule tables                                                      *)
(***************************************************************************)
RESTRICTED_PATTERNS ==
    << <<"archive", "/">>, <<"temp-src", "/">>, <<"simple-test", "/">> >>

RESTRICTED_ALLOWED_FILES ==
    << <<"archive", "/", "README.md">>,
       <<"temp-src", "/", "README.md">>,
       <<"simple-test", "/", "README.md">> >>

DEPRECATED_ROOT_PATTERNS ==
    << <<"bankwide", "/">>, <<"bank-wide-services", "/">>,
       <<"loan-service", "/">>, <<"payment-service", "/">> >>

DEPRECATED_ALLOWED_FILES ==
    << <<"bankwide", "/", "README.md">>,
       <<"bank-wide-services", "/", "README.md">>,
       <<"loan-service", "/", "README.md">>,
       <<"payment-service", "/", "README.md">> >>

SHARED_FOUNDATION_PATTERNS ==
    << <<"shared-kernel", "/">>, <<"shared-infrastructure", "/">> >>

ADR_PATTERNS ==
    << <<"docs", "/", "architecture", "/", "adr", "/">>,
       <<"docs", "/", "architecture", "/", "decisions", "/">> >>

REQUIRED_DOCS ==
    << <<"docs", "/", "architecture", "/", "REPOSITORY_STRUCTURE_POLICY.md">>,
       <<"docs", "/", "architecture", "/", "MODULE_OWNERSHIP_MAP.md">>,
       <<"docs", "/", "GENERAL_BACKLOG.md">> >>

DEPRECATED_SETTINGS_INCLUDES ==
    << <<"include", " ", "'", "bankwide">>,
       <<"include", " ", "'", "bank-wide-services">>,
       <<"include", " ", "'", "loan-service">>,
       <<"include", " ", "'", "payment-service">> >>

(***************************************************************************)
(* String primitives on token sequences                                    *)
(***************************************************************************)
Range(s) == {s[i] : i \in 1..Len(s)}

\* str.startswith
startswith(path, pattern) ==
    /\ Len(path) >= Len(pattern)
    /\ SubSeq(path, 1, Len(pattern)) = pattern

\* str.endswith
endswith(path, suffix) ==
    /\ Len(path) >= Len(suffix)
    /\ SubSeq(path, Len(path) - Len(suffix) + 1, Len(path)) = suffix

\* token in text
contains(text, token) ==
    \E i \in 1..(Len(text) - Len(token) + 1) :
        SubSeq(text, i, i + Len(token) - 1) = token

\* the characters the regular expression class \s matches
Whitespace == {" ", "\n", "\t"}

\* re.sub(r"\s+", " ", text): every maximal run of whitespace becomes one space
RECURSIVE compact_whitespace(_)
compact_whitespace(text) ==
    IF text = <<>> THEN <<>>
    ELSE IF Head(text) \in Whitespace
         THEN IF Len(text) > 1 /\ text[2] \in Whitespace
              THEN compact_whitespace(Tail(text))
              ELSE <<" ">> \o compact_whitespace(Tail(text))
         ELSE <<Head(text)>> \o compact_whitespace(Tail(text))

(***************************************************************************)
(* Change classifier                                                       *)
(***************************************************************************)
\* fault variant: the receiver and the argument of startswith swapped
matches_any_prefix_Swapped(path, patterns) ==
    \E i \in 1..Len(patterns) : startswith(patterns[i], path)

matches_any_prefix(path, patterns) ==
    \E i \in 1..Len(patterns) : startswith(path, patterns[i])

\* fault variant: the deleted set is not consulted
is_allowed_or_deleted_IgnoresDeleted(path, allowed_files, deleted) ==
    IF path \in Range(allowed_files) THEN TRUE ELSE FALSE

is_allowed_or_deleted(path, allowed_files, deleted) ==
    IF path \in Range(allowed_files) THEN TRUE
    ELSE IF path \in deleted THEN TRUE
    ELSE FALSE

\* fault variant: the allowed-exception list is not consulted
collect_blocked_changes_NoExceptions(changed, patterns, allowed_files, deleted) ==
    SelectSeq(changed,
              LAMBDA file_path :
                  /\ matches_any_prefix(file_path, patterns)
                  /\ file_path \notin deleted)

collect_blocked_changes(changed, patterns, allowed_files, deleted) ==
    SelectSeq(changed,
              LAMBDA file_path :
                  /\ matches_any_prefix(file_path, patterns)
                  /\ ~is_allowed_or_deleted(file_path, allowed_files, deleted))

\* fault variant: files the evaluated context lists as deleted are left out
collect_shared_hits_SkipsDeleted(changed) ==
    SelectSeq(changed,
              LAMBDA f : /\ matches_any_prefix(f, SHARED_FOUNDATION_PATTERNS)
                         /\ f \notin Range(ctx.deleted_files))

collect_shared_hits(changed) ==
    SelectSeq(changed, LAMBDA f : matches_any_prefix(f, SHARED_FOUNDATION_PATTERNS))

\* fault variant: only the first ADR location counts
collect_adr_hits_FirstOnly(changed) ==
    SelectSeq(changed, LAMBDA f : startswith(f, ADR_PATTERNS[1]))

collect_adr_hits(changed) ==
    SelectSeq(changed, LAMBDA f : matches_any_prefix(f, ADR_PATTERNS))

\* fault variant: the manifest is searched without whitespace normalisation
has_deprecated_includes_NoCompact(settings_content) ==
    \E i \in 1..Len(DEPRECATED_SETTINGS_INCLUDES) :
        contains(settings_content, DEPRECATED_SETTINGS_INCLUDES[i])

has_deprecated_includes(settings_content) ==
    LET compact == compact_whitespace(settings_content)
    IN  \E i \in 1..Len(DEPRECATED_SETTINGS_INCLUDES) :
            contains(compact, DEPRECATED_SETTINGS_INCLUDES[i])

\* fault variant: files deleted in this change set are still reported
find_residual_tracked_files_NoDeleted(tracked, deleted) ==
    SelectSeq(tracked,
              LAMBDA file_path :
                  /\ matches_any_prefix(file_path, DEPRECATED_ROOT_PATTERNS)
                  /\ ~endswith(file_path, <<"/", "README.md">>))

find_residual_tracked_files(tracked, deleted) ==
    SelectSeq(tracked,
              LAMBDA file_path :
                  /\ matches_any_prefix(file_path, DEPRECATED_ROOT_PATTERNS)
                  /\ ~endswith(file_path, <<"/", "README.md">>)
                  /\ file_path \notin deleted)

(***************************************************************************)
(* ValidationContext / ValidationResult                                    *)
(***************************************************************************)
\* the context the tests start from (base_ctx): every list empty, every flag off
ValidationContext ==
    [changed_files |-> <<>>, deleted_files |-> <<>>, tracked_files |-> <<>>,
     settings_content |-> <<>>,
     allow_legacy_path_edits |-> FALSE,
     allow_deprecated_root_changes |-> FALSE,
     allow_shared_foundation_change |-> FALSE,
     strict_deprecated_roots |-> FALSE,
     legacy_use_case_hits |-> <<>>,
     openapi_dpop_issues |-> <<>>,
     openapi_structure_issues |-> <<>>]

\* a fresh result: errors and warnings default to empty lists
ValidationResult == [errors |-> <<>>, warnings |-> <<>>]

\* fault variant: warnings count as failures too
exit_code_CountsWarnings(r) == IF r.errors # <<>> \/ r.warnings # <<>> THEN 1 ELSE 0

\* the exit_code property of ValidationResult
exit_code(r) == IF r.errors # <<>> THEN 1 ELSE 0

\* a message: its first line and the lines of detail that follow it
Message(title, details) == [title |-> title, details |-> details]

ERR_FROZEN == "ERROR: Changes detected in frozen legacy paths."
ERR_DEPRECATED == "ERROR: Changes detected in deprecated roots."
ERR_SETTINGS == "ERROR: Deprecated roots are referenced in settings.gradle includes."
WARN_RESIDUAL == "WARN: Residual tracked files exist in deprecated roots:"
ERR_STRICT == "ERROR: STRICT_DEPRECATED_ROOTS=true and residual files were detected."
ERR_SHARED == "ERROR: Shared foundation changed without ADR/decision update."
ERR_LEGACY == "ERROR: Source files contain legacy use-case numbering (UCxx/ucxx)."
ERR_DPOP == "ERROR: OpenAPI protected operations are missing mandatory DPoP header requirements."
ERR_STRUCTURE == "ERROR: OpenAPI structure validation failed for required bounded-context specs."

(***************************************************************************)
(* Policy evaluator                                                        *)
(***************************************************************************)
\* fault variant: the evaluation returns at the first error it records
evaluate_context_ShortCircuit(c) ==
    LET deleted == Range(c.deleted_files)
        restricted_hits ==
            collect_blocked_changes(c.changed_files, RESTRICTED_PATTERNS,
                                    RESTRICTED_ALLOWED_FILES, deleted)
        deprecated_hits ==
            collect_blocked_changes(c.changed_files, DEPRECATED_ROOT_PATTERNS,
                                    DEPRECATED_ALLOWED_FILES, deleted)
        residual == find_residual_tracked_files(c.tracked_files, deleted)
        shared_hits == collect_shared_hits(c.changed_files)
        all ==
            (IF restricted_hits # <<>> /\ ~c.allow_legacy_path_edits
             THEN <<Message(ERR_FROZEN, restricted_hits)>> ELSE <<>>) \o
            (IF deprecated_hits # <<>> /\ ~c.allow_deprecated_root_changes
             THEN <<Message(ERR_DEPRECATED, deprecated_hits)>> ELSE <<>>) \o
            (IF has_deprecated_includes(c.settings_content)
             THEN <<Message(ERR_SETTINGS, <<>>)>> ELSE <<>>) \o
            (IF residual # <<>> /\ c.strict_deprecated_roots
             THEN <<Message(ERR_STRICT, <<>>)>> ELSE <<>>) \o
            (IF /\ shared_hits # <<>>
                /\ collect_adr_hits(c.changed_files) = <<>>
                /\ ~c.allow_shared_foundation_change
             THEN <<Message(ERR_SHARED, shared_hits)>> ELSE <<>>) \o
            (IF c.legacy_use_case_hits # <<>>
             THEN <<Message(ERR_LEGACY, c.legacy_use_case_hits)>> ELSE <<>>) \o
            (IF c.openapi_dpop_issues # <<>>
             THEN <<Message(ERR_DPOP, c.openapi_dpop_issues)>> ELSE <<>>) \o
            (IF c.openapi_structure_issues # <<>>
             THEN <<Message(ERR_STRUCTURE, c.openapi_structure_issues)>> ELSE <<>>)
    IN  [errors |-> IF all = <<>> THEN <<>> ELSE <<Head(all)>>,
         warnings |-> IF residual # <<>>
                      THEN <<Message(WARN_RESIDUAL, residual)>> ELSE <<>>]

evaluate_context(c) ==
    LET deleted == Range(c.deleted_files)
        restricted_hits ==
            collect_blocked_changes(c.changed_files, RESTRICTED_PATTERNS,
                                    RESTRICTED_ALLOWED_FILES, deleted)
        deprecated_hits ==
            collect_blocked_changes(c.changed_files, DEPRECATED_ROOT_PATTERNS,
                                    DEPRECATED_ALLOWED_FILES, deleted)
        residual == find_residual_tracked_files(c.tracked_files, deleted)
        shared_hits == collect_shared_hits(c.changed_files)
        adr_hits == collect_adr_hits(c.changed_files)
        e1 == IF restricted_hits # <<>> /\ ~c.allow_legacy_path_edits
              THEN <<Message(ERR_FROZEN, restricted_hits)>> ELSE <<>>
        e2 == IF deprecated_hits # <<>> /\ ~c.allow_deprecated_root_changes
              THEN <<Message(ERR_DEPRECATED, deprecated_hits)>> ELSE <<>>
        e3 == IF has_deprecated_includes(c.settings_content)
              THEN <<Message(ERR_SETTINGS, <<>>)>> ELSE <<>>
        w4 == IF residual # <<>>
              THEN <<Message(WARN_RESIDUAL, residual)>> ELSE <<>>
        e4 == IF residual # <<>> /\ c.strict_deprecated_roots
              THEN <<Message(ERR_STRICT, <<>>)>> ELSE <<>>
        e5 == IF /\ shared_hits # <<>>
                 /\ adr_hits = <<>>
                 /\ ~c.allow_shared_foundation_change
              THEN <<Message(ERR_SHARED, shared_hits)>> ELSE <<>>
        e6 == IF c.legacy_use_case_hits # <<>>
              THEN <<Message(ERR_LEGACY, c.legacy_use_case_hits)>> ELSE <<>>
        e7 == IF c.openapi_dpop_issues # <<>>
              THEN <<Message(ERR_DPOP, c.openapi_dpop_issues)>> ELSE <<>>
        e8 == IF c.openapi_structure_issues # <<>>
              THEN <<Message(ERR_STRUCTURE, c.openapi_structure_issues)>> ELSE <<>>
    IN  [errors |-> e1 \o e2 \o e3 \o e4 \o e5 \o e6 \o e7 \o e8,
         warnings |-> w4]

(***************************************************************************)
(* EvalSpec: evaluate_context on the contexts a caller can build.  As the  *)
(* unit tests do, a caller starts from the empty context, assigns to its   *)
(* fields and then calls evaluate_context once.                            *)
(***************************************************************************)
Paths ==
    { <<"archive", "/", "old.txt">>,
      <<"archive", "/", "README.md">>,
      <<"archive", "-notes.txt">>,
      <<"bankwide", "/", "build.gradle">>,
      <<"bankwide", "/", "README.md">>,
      <<"bankwide", "/", "sub", "/", "README.md">>,
      <<"loan-service", "/", "code.java">>,
      <<"shared-kernel", "/", "x.java">>,
      <<"shared-infrastructure", "/", "B.java">>,
      <<"docs", "/", "architecture", "/", "adr", "/", "ADR-1.md">>,
      <<"docs", "/", "architecture", "/", "decisions", "/", "D-1.md">>,
      <<"a.txt">> }

\* what the tests list as tracked: files of the deprecated roots, and READMEs
\* and plain files elsewhere
TrackedPaths ==
    { <<"bankwide", "/", "build.gradle">>,
      <<"bankwide", "/", "README.md">>,
      <<"bankwide", "/", "sub", "/", "README.md">>,
      <<"loan-service", "/", "code.java">>,
      <<"archive", "/", "README.md">>,
      <<"a.txt">> }

SettingsSamples ==
    { <<"include", " ", "'", "loan-service", "'", "\n",
        "include", " ", "'", "customer-context:customer-domain", "'", "\n">>,
      <<"include", " ", "'", "customer-context:customer-domain", "'", "\n">> }

LegacyHitSamples ==
    { <<"open-finance-context/src/main/java/Example.java", ":", "1", ":", " ", "UC10">> }

DpopIssueSamples ==
    { <<"api/openapi/loan-context.yaml", ":", "/loans", " ", "POST", " ",
        "missing required DPoP header parameter">> }

StructureIssueSamples ==
    { <<"api/openapi/risk-context.yaml", ":", " ", "paths are empty (paths: {})">> }

Flags ==
    { "allow_legacy_path_edits", "allow_deprecated_root_changes",
      "allow_shared_foundation_change", "strict_deprecated_roots" }

\* the resolver log and the scanner state, where no resolver or scanner runs
NoVcs == [step |-> "none"]

\* the loop variables of extract_operation_blocks and the objects of repeated
\* evaluations, where neither is followed step by step
LocalsIdle ==
    /\ frame = [index |-> 0, current_path |-> <<>>]
    /\ heap = <<>>
    /\ evaluations = <<>>
    /\ verdict = "none"

LocalsUnchanged == UNCHANGED <<frame, heap, evaluations, verdict>>

ScanIdle ==
    /\ all_tracked_files = <<>>
    /\ disk = <<>>
    /\ lines = <<>>
    /\ operations = <<>>
    /\ LocalsIdle

ScanUnchanged ==
    /\ UNCHANGED <<all_tracked_files, disk, lines, operations>>
    /\ LocalsUnchanged

CliIdle ==
    /\ vcs = NoVcs
    /\ ScanIdle
    /\ mode = <<"", "", "">>
    /\ changed_files = <<>>
    /\ deleted_files = <<>>
    /\ calls = <<>>
    /\ output = <<>>
    /\ cli_return = -1
    /\ repo_docs = Range(REQUIRED_DOCS)

CliUnchanged ==
    /\ UNCHANGED <<mode, changed_files, deleted_files, calls, output, cli_return,
                   repo_docs, vcs>>
    /\ ScanUnchanged

EvalInit ==
    /\ pc = "build"
    /\ ctx = ValidationContext
    /\ result = ValidationResult
    /\ edits = 0
    /\ CliIdle

\* one assignment to a field of the context
Assign(field, value) ==
    /\ pc = "build"
    /\ edits < MaxEdits
    /\ ctx' = [ctx EXCEPT ![field] = value]
    /\ edits' = edits + 1
    /\ UNCHANGED <<pc, result>>
    /\ CliUnchanged

SetChangedFiles ==
    \E p \in Paths : Assign("changed_files", Append(ctx.changed_files, p))

SetDeletedFiles ==
    \E p \in Paths : Assign("deleted_files", Append(ctx.deleted_files, p))

SetTrackedFiles ==
    \E p \in TrackedPaths : Assign("tracked_files", Append(ctx.tracked_files, p))

SetSettingsContent ==
    \E s \in SettingsSamples : ctx.settings_content # s /\ Assign("settings_content", s)

SetFlag ==
    \E f \in Flags : ~ctx[f] /\ Assign(f, TRUE)

SetLegacyUseCaseHits ==
    \E h \in LegacyHitSamples :
        Assign("legacy_use_case_hits", Append(ctx.legacy_use_case_hits, h))

SetOpenapiDpopIssues ==
    \E h \in DpopIssueSamples :
        Assign("openapi_dpop_issues", Append(ctx.openapi_dpop_issues, h))

SetOpenapiStructureIssues ==
    \E h \in StructureIssueSamples :
        Assign("openapi_structure_issues", Append(ctx.openapi_structure_issues, h))

\* result = validator.evaluate_context(ctx)
EvaluateContext ==
    /\ pc = "build"
    /\ result' = evaluate_context(ctx)
    /\ pc' = "evaluated"
    /\ UNCHANGED <<ctx, edits>>
    /\ CliUnchanged

EvalNext ==
    \/ SetChangedFiles
    \/ SetDeletedFiles
    \/ SetTrackedFiles
    \/ SetSettingsContent
    \/ SetFlag
    \/ SetLegacyUseCaseHits
    \/ SetOpenapiDpopIssues
    \/ SetOpenapiStructureIssues
    \/ EvaluateContext

EvalSpec == EvalInit /\ [][EvalNext]_vars

(***************************************************************************)
(* SettingsSpec: evaluate_context on every manifest of at most             *)
(* MaxSettingsLen tokens, under every combination of the four flags.       *)
(***************************************************************************)
SettingsTokens ==
    {"include", " ", "\n", "'", "bankwide", "payment-service", "customer-context"}

RECURSIVE SeqsUpTo(_, _)
SeqsUpTo(S, n) ==
    IF n = 0 THEN {<<>>}
    ELSE LET shorter == SeqsUpTo(S, n - 1)
         IN  shorter \cup {Append(t, x) : t \in shorter, x \in S}

SettingsInit ==
    /\ pc = "build"
    /\ \E s \in SeqsUpTo(SettingsTokens, MaxSettingsLen) :
       \E a, b, c, d \in BOOLEAN :
           ctx = [ValidationContext EXCEPT
                      !.settings_content = s,
                      !.allow_legacy_path_edits = a,
                      !.allow_deprecated_root_changes = b,
                      !.allow_shared_foundation_change = c,
                      !.strict_deprecated_roots = d]
    /\ result = ValidationResult
    /\ edits = 0
    /\ CliIdle

SettingsNext == EvaluateContext

SettingsSpec == SettingsInit /\ [][SettingsNext]_vars

(***************************************************************************)
(* Environment and VCS plumbing                                            *)
(***************************************************************************)
\* str.strip: leading and trailing whitespace removed
RECURSIVE lstrip(_)
lstrip(text) ==
    IF text # <<>> /\ Head(text) \in Whitespace THEN lstrip(Tail(text)) ELSE text

RECURSIVE rstrip(_)
rstrip(text) ==
    IF text # <<>> /\ text[Len(text)] \in Whitespace
    THEN rstrip(SubSeq(text, 1, Len(text) - 1))
    ELSE text

strip(text) == rstrip(lstrip(text))

\* str.lower, on the tokens that occur with upper-case letters
lower_token(t) ==
    CASE t = "TRUE" -> "true"
      [] t = "True" -> "true"
      [] t = "STAGED" -> "staged"
      [] t = "Working-Tree" -> "working-tree"
      [] t = ".KT" -> ".kt"
      [] OTHER -> t

lower(text) == [i \in 1..Len(text) |-> lower_token(text[i])]

\* env.get(key, ""): an unset variable reads as the empty string
env_get(env, key) == IF key \in DOMAIN env THEN env[key] ELSE <<>>

flag_from_env(env, key) == lower(strip(env_get(env, key))) = <<"true">>

\* fault variant: only the first required document is checked
find_missing_required_docs_FirstOnly(existing_paths) ==
    SelectSeq(SubSeq(REQUIRED_DOCS, 1, 1), LAMBDA doc : doc \notin Range(existing_paths))

find_missing_required_docs(existing_paths) ==
    SelectSeq(REQUIRED_DOCS, LAMBDA doc : doc \notin Range(existing_paths))

\* a finished VCS command: its exit status and the lines of its standard output
Completed(returncode, stdout) == [returncode |-> returncode, stdout |-> stdout]

\* fault variant: the exit status is not looked at
command_lines_IgnoresStatus(completed) ==
    LET stripped == [i \in 1..Len(completed.stdout) |-> strip(completed.stdout[i])]
    IN  SelectSeq(stripped, LAMBDA line : line # <<>>)

\* command_lines: nothing on a non-zero exit, else the stripped non-blank lines
command_lines(completed) ==
    IF completed.returncode # 0 THEN <<>>
    ELSE LET stripped == [i \in 1..Len(completed.stdout) |-> strip(completed.stdout[i])]
         IN  SelectSeq(stripped, LAMBDA line : line # <<>>)

\* the id git prints for the empty tree
EMPTY_TREE == "4b825dc642cb6eb9a060e54bf8d69288fbee4904"

\* fault variant: the revision pair is looked at before the override
detect_diff_mode_PairFirst(env, rev_parse, hash_object) ==
    LET override == lower(strip(env_get(env, "GOVERNANCE_DIFF_MODE")))
        base_sha == env_get(env, "GITHUB_BASE_SHA")
        head_sha == env_get(env, "GITHUB_SHA")
        base_ref == IF hash_object.returncode = 0
                    THEN strip(hash_object.stdout[1]) ELSE <<>>
    IN  IF base_sha # <<>> /\ head_sha # <<>>
        THEN <<"commit-range", base_sha, head_sha>>
        ELSE IF override = <<"staged">> THEN <<"staged", <<>>, <<>>>>
        ELSE IF override = <<"working-tree">> THEN <<"working-tree", <<>>, <<>>>>
        ELSE IF env_get(env, "CI") = <<>> THEN <<"working-tree", <<>>, <<>>>>
        ELSE IF rev_parse.returncode = 0
             THEN <<"commit-range", <<"HEAD~1">>, <<"HEAD">>>>
        ELSE <<"commit-range", base_ref, <<"HEAD">>>>

\* rev_parse: git rev-parse --verify HEAD~1; hash_object: git hash-object -t tree /dev/null
detect_diff_mode(env, rev_parse, hash_object) ==
    LET override == lower(strip(env_get(env, "GOVERNANCE_DIFF_MODE")))
        base_sha == env_get(env, "GITHUB_BASE_SHA")
        head_sha == env_get(env, "GITHUB_SHA")
        has_prev == rev_parse.returncode = 0
        base_ref == IF hash_object.returncode = 0
                    THEN strip(hash_object.stdout[1]) ELSE <<>>
    IN  IF override = <<"staged">> THEN <<"staged", <<>>, <<>>>>
        ELSE IF override = <<"working-tree">> THEN <<"working-tree", <<>>, <<>>>>
        ELSE IF base_sha # <<>> /\ head_sha # <<>>
             THEN <<"commit-range", base_sha, head_sha>>
        ELSE IF env_get(env, "CI") = <<>> THEN <<"working-tree", <<>>, <<>>>>
        ELSE IF has_prev THEN <<"commit-range", <<"HEAD~1">>, <<"HEAD">>>>
        ELSE <<"commit-range", base_ref, <<"HEAD">>>>

\* the VCS commands detect_diff_mode runs for this environment, in order
detect_diff_mode_calls(env, rev_parse) ==
    LET override == lower(strip(env_get(env, "GOVERNANCE_DIFF_MODE")))
    IN  IF \/ override \in {<<"staged">>, <<"working-tree">>}
           \/ (env_get(env, "GITHUB_BASE_SHA") # <<>> /\ env_get(env, "GITHUB_SHA") # <<>>)
           \/ env_get(env, "CI") = <<>>
        THEN <<>>
        ELSE IF rev_parse.returncode = 0
             THEN <<"git rev-parse --verify HEAD~1">>
             ELSE <<"git rev-parse --verify HEAD~1", "git hash-object -t tree /dev/null">>

\* line.split(maxsplit=1): the first word, and what follows the whitespace after it
split_once(line) ==
    LET text == lstrip(line)
        ws == {i \in 1..Len(text) : text[i] \in Whitespace}
    IN  IF text = <<>> THEN <<>>
        ELSE IF ws = {} THEN <<text>>
        ELSE LET first == CHOOSE i \in ws : \A j \in ws : i <= j
                 rest == lstrip(SubSeq(text, first, Len(text)))
             IN  IF rest = <<>> THEN <<SubSeq(text, 1, first - 1)>>
                 ELSE <<SubSeq(text, 1, first - 1), rest>>

\* the deleted paths of a --name-status listing
deleted_of(name_status) ==
    LET parts == [i \in 1..Len(name_status) |-> split_once(name_status[i])]
        kept == SelectSeq(parts, LAMBDA q : Len(q) = 2 /\ q[1] = <<"D">>)
    IN  [i \in 1..Len(kept) |-> kept[i][2]]

\* collect_changed_and_deleted, given the two finished git diff commands
collect_changed_and_deleted(name_only, with_status) ==
    LET changed == command_lines(name_only)
        name_status == command_lines(with_status)
    IN  <<changed, deleted_of(name_status)>>

\* the two git diff commands of a mode
diff_commands(m) ==
    IF m = "staged"
    THEN <<"git diff --cached --name-only", "git diff --cached --name-status">>
    ELSE IF m = "working-tree"
    THEN <<"git diff --name-only HEAD", "git diff --name-status HEAD">>
    ELSE <<"git diff --name-only base head", "git diff --name-status base head">>

(***************************************************************************)
(* The environment of a cli run                                            *)
(***************************************************************************)
DiffEnvs ==
    [ {"GOVERNANCE_DIFF_MODE"} -> {<<>>, <<"STAGED">>, <<" ", "working-tree", "\n">>,
                                   <<"commit-range">>} ]
    \cup { [GITHUB_BASE_SHA |-> b, GITHUB_SHA |-> h, CI |-> c] :
               b \in {<<>>, <<"abc">>}, h \in {<<>>, <<"def">>}, c \in {<<>>, <<"true">>} }
    \cup { [GOVERNANCE_DIFF_MODE |-> <<"staged">>, GITHUB_BASE_SHA |-> <<"abc">>,
            GITHUB_SHA |-> <<"def">>, CI |-> <<"true">>] }

FlagKeys ==
    {"ALLOW_LEGACY_PATH_EDITS", "ALLOW_DEPRECATED_ROOT_CHANGES",
     "ALLOW_SHARED_FOUNDATION_CHANGE", "STRICT_DEPRECATED_ROOTS"}

\* no flag variable set, or each set to a spelling of true or to false
FlagEnvs == {<<>>} \cup [FlagKeys -> {<<" ", "TRUE", "\n">>, <<"false">>}]

ReturnCodes == {0, 128}

\* the paths a diff of the working tree names
CliPaths ==
    { <<"archive", "/", "old.txt">>,
      <<"bankwide", "/", "build.gradle">>,
      <<"a.txt">> }

\* a diff: entries (status, path); its two renderings
DiffEntries == {<<st, p>> : st \in {"M", "D"}, p \in CliPaths}

Diffs == SeqsUpTo(DiffEntries, MaxDiff)

name_only_lines(diff) == [i \in 1..Len(diff) |-> diff[i][2] \o <<"\n">>]

name_status_lines(diff) == [i \in 1..Len(diff) |-> <<diff[i][1], "\t">> \o diff[i][2]]

\* settings.gradle: absent, unreadable, or readable with this content
SettingsFiles ==
    {[state |-> "absent", content |-> <<>>], [state |-> "unreadable", content |-> <<>>]}
    \cup {[state |-> "readable", content |-> s] : s \in SettingsSamples}

\* git ls-files bankwide bank-wide-services loan-service payment-service
DeprecatedListings ==
    { <<>>,
      << <<"bankwide", "/", "README.md", "\n">>,
         <<"bankwide", "/", "build.gradle", "\n">> >> }

\* what the three scanners report for the tracked files on disk
ScannerReports ==
    [legacy : {<<>>} \cup {<<h>> : h \in LegacyHitSamples},
     dpop : {<<>>} \cup {<<h>> : h \in DpopIssueSamples},
     structure : {<<>>} \cup {<<h>> : h \in StructureIssueSamples}]

Line(title) == Message(title, <<>>)

(***************************************************************************)
(* cli                                                                     *)
(***************************************************************************)
EvalIdle ==
    /\ ctx = ValidationContext
    /\ result = ValidationResult
    /\ edits = 0

Init ==
    /\ pc = "cli"
    /\ EvalIdle
    /\ mode = <<"", <<>>, <<>>>>
    /\ changed_files = <<>>
    /\ deleted_files = <<>>
    /\ calls = <<>>
    /\ output = <<>>
    /\ cli_return = -1
    /\ repo_docs \in SUBSET Range(REQUIRED_DOCS)
    /\ vcs = NoVcs
    /\ ScanIdle

\* lines 496-504 in an environment env where the two git commands of
\* detect_diff_mode finish as rev_parse and hash_object
DetectDiffModeStep(env, rev_parse, hash_object) ==
    /\ pc = "cli"
    /\ LET m == detect_diff_mode(env, rev_parse, hash_object)
       IN  /\ mode' = m
           /\ calls' = calls \o detect_diff_mode_calls(env, rev_parse)
           /\ output' = output \o
                << Line("==> Running repository governance checks"),
                   IF m[1] = "staged" THEN Line("Diff mode: staged index")
                   ELSE IF m[1] = "working-tree"
                   THEN Line("Diff mode: working-tree (HEAD vs local changes)")
                   ELSE Message("Diff range:", << m[2] \o <<"..">> \o m[3] >>) >>
    /\ pc' = "collect"
    /\ UNCHANGED <<ctx, result, edits, changed_files, deleted_files, cli_return,
                   repo_docs>>
    /\ ScanUnchanged

\* lines 496-504: the banner, detect_diff_mode, the line naming the diff
CliDetectDiffMode ==
    /\ pc = "cli"
    /\ \E env \in DiffEnvs, rc \in ReturnCodes, rc2 \in ReturnCodes :
         DetectDiffModeStep(env, Completed(rc, <<>>),
                            Completed(rc2, << <<EMPTY_TREE, "\n">> >>))
    /\ UNCHANGED vcs

\* fault variant: a run whose diff names no file goes on to the checks
CollectChangedStep_NoReturn(name_only, with_status) ==
    /\ pc = "collect"
    /\ LET got == collect_changed_and_deleted(name_only, with_status)
       IN  /\ changed_files' = got[1]
           /\ deleted_files' = got[2]
           /\ calls' = calls \o diff_commands(mode[1])
           /\ pc' = "docs"
           /\ UNCHANGED <<output, cli_return>>
    /\ UNCHANGED <<ctx, result, edits, mode, repo_docs>>
    /\ ScanUnchanged

\* lines 506-509 where the two git diff commands finish as name_only and with_status
CollectChangedStep(name_only, with_status) ==
    /\ pc = "collect"
    /\ LET got == collect_changed_and_deleted(name_only, with_status)
       IN  /\ changed_files' = got[1]
           /\ deleted_files' = got[2]
           /\ calls' = calls \o diff_commands(mode[1])
           /\ IF got[1] = <<>>
              THEN /\ output' = Append(output,
                          Line("No changed files detected. Governance checks passed."))
                   /\ cli_return' = 0
                   /\ pc' = "done"
              ELSE /\ pc' = "docs"
                   /\ UNCHANGED <<output, cli_return>>
    /\ UNCHANGED <<ctx, result, edits, mode, repo_docs>>
    /\ ScanUnchanged

\* lines 506-509: collect_changed_and_deleted and the nothing-changed return
CliCollectChanged ==
    /\ pc = "collect"
    /\ \E diff \in Diffs, rc \in ReturnCodes, rc2 \in ReturnCodes :
         CollectChangedStep(Completed(rc, name_only_lines(diff)),
                            Completed(rc2, name_status_lines(diff)))
    /\ UNCHANGED vcs

\* fault variant: the missing documents are reported but the run goes on
CliCheckRequiredDocs_NoReturn ==
    /\ pc = "docs"
    /\ LET existing == SelectSeq(REQUIRED_DOCS, LAMBDA doc : doc \in repo_docs)
           missing_docs == find_missing_required_docs(existing)
       IN  /\ calls' = Append(calls, "exists REQUIRED_DOCS")
           /\ output' = output \o
                  [i \in 1..Len(missing_docs) |->
                      Message("ERROR: Required governance document missing:",
                              <<missing_docs[i]>>)]
           /\ pc' = "gather"
           /\ UNCHANGED cli_return
    /\ UNCHANGED <<ctx, result, edits, mode, changed_files, deleted_files, repo_docs,
                   vcs>>
    /\ ScanUnchanged

\* lines 511-517: the required governance documents
CliCheckRequiredDocs ==
    /\ pc = "docs"
    /\ LET existing == SelectSeq(REQUIRED_DOCS, LAMBDA doc : doc \in repo_docs)
           missing_docs == find_missing_required_docs(existing)
       IN  /\ calls' = Append(calls, "exists REQUIRED_DOCS")
           /\ IF missing_docs # <<>>
              THEN /\ output' = output \o
                        [i \in 1..Len(missing_docs) |->
                            Message("ERROR: Required governance document missing:",
                                    <<missing_docs[i]>>)]
                   /\ cli_return' = 1
                   /\ pc' = "done"
              ELSE /\ pc' = "gather"
                   /\ UNCHANGED <<output, cli_return>>
    /\ UNCHANGED <<ctx, result, edits, mode, changed_files, deleted_files, repo_docs,
                   vcs>>
    /\ ScanUnchanged

\* lines 519-542: the manifest, the tracked files, the scanners, the flags, the context.
\* settings_path.read_text has no handler: an unreadable manifest raises out of cli.
GatherSignalsStep(listings, envs) ==
    /\ pc = "gather"
    /\ \E settings \in SettingsFiles :
         IF settings.state = "unreadable"
         THEN /\ calls' = Append(calls, "read settings.gradle")
              /\ pc' = "raised"
              /\ UNCHANGED ctx
         ELSE \E listing \in listings, rc \in ReturnCodes,
                 scans \in ScannerReports, env \in envs :
                /\ calls' = calls \o
                     (IF settings.state = "readable"
                      THEN <<"read settings.gradle">> ELSE <<>>) \o
                     << "git ls-files bankwide bank-wide-services loan-service payment-service",
                        "git ls-files",
                        "scan_source_files_for_legacy_use_case_numbering",
                        "collect_openapi_dpop_issues",
                        "collect_openapi_structure_issues" >>
                /\ ctx' =
                     [changed_files |-> changed_files,
                      deleted_files |-> deleted_files,
                      tracked_files |-> command_lines(Completed(rc, listing)),
                      settings_content |-> settings.content,
                      allow_legacy_path_edits |->
                          flag_from_env(env, "ALLOW_LEGACY_PATH_EDITS"),
                      allow_deprecated_root_changes |->
                          flag_from_env(env, "ALLOW_DEPRECATED_ROOT_CHANGES"),
                      allow_shared_foundation_change |->
                          flag_from_env(env, "ALLOW_SHARED_FOUNDATION_CHANGE"),
                      strict_deprecated_roots |->
                          flag_from_env(env, "STRICT_DEPRECATED_ROOTS"),
                      legacy_use_case_hits |-> scans.legacy,
                      openapi_dpop_issues |-> scans.dpop,
                      openapi_structure_issues |-> scans.structure]
                /\ pc' = "evaluate"
    /\ UNCHANGED <<result, edits, mode, changed_files, deleted_files, output,
                   cli_return, repo_docs, vcs>>
    /\ ScanUnchanged

\* any listing of the deprecated roots, any setting of the flag variables
CliGatherSignals == GatherSignalsStep(DeprecatedListings, FlagEnvs)

\* line 544: result = evaluate_context(context)
CliEvaluate ==
    /\ pc = "evaluate"
    /\ result' = evaluate_context(ctx)
    /\ calls' = Append(calls, "evaluate_context")
    /\ pc' = "render"
    /\ UNCHANGED <<ctx, edits, mode, changed_files, deleted_files, output,
                   cli_return, repo_docs, vcs>>
    /\ ScanUnchanged

\* fault variant: the tracked files are listed again while the result is printed
CliRender_ListsAgain ==
    /\ pc = "render"
    /\ output' = output \o result.warnings \o result.errors \o
                 (IF exit_code(result) = 0
                  THEN <<Line("Repository governance checks passed.")>> ELSE <<>>)
    /\ calls' = Append(calls, "git ls-files")
    /\ cli_return' = exit_code(result)
    /\ pc' = "done"
    /\ UNCHANGED <<ctx, result, edits, mode, changed_files, deleted_files,
                   repo_docs, vcs>>
    /\ ScanUnchanged

\* lines 546-555: the warnings, the errors, the closing line, the return value
CliRender ==
    /\ pc = "render"
    /\ output' = output \o result.warnings \o result.errors \o
                 (IF exit_code(result) = 0
                  THEN <<Line("Repository governance checks passed.")>> ELSE <<>>)
    /\ cli_return' = exit_code(result)
    /\ pc' = "done"
    /\ UNCHANGED <<ctx, result, edits, mode, changed_files, deleted_files, calls,
                   repo_docs, vcs>>
    /\ ScanUnchanged

Next ==
    \/ CliDetectDiffMode
    \/ CliCollectChanged
    \/ CliCheckRequiredDocs
    \/ CliGatherSignals
    \/ CliEvaluate
    \/ CliRender

Spec == Init /\ [][Next]_vars

(***************************************************************************)
(* Regular expressions on token sequences.  A pattern is a sequence of     *)
(* elements: "^" and "$" (with re.MULTILINE: also after and before a line  *)
(* break), "\\s" (one whitespace character, a line break included),        *)
(* "\\s*", a character class, or a literal token.                          *)
(***************************************************************************)
\* the tokens whose text begins with "/"
SlashTokens == {"/secure", "/public", "/accounts", "/api/v1/example"}

\* get|post|put|patch|delete|head|options|trace
HttpVerbs == {"get", "post", "put", "patch", "delete", "head", "options", "trace"}

\* the tokens made of [A-Za-z0-9_\-] only
KeyTokens ==
    HttpVerbs \cup {"DPoP", "InteractionId", "security", "parameters", "components",
                    "summary", "name", "in", "required", "paths", "header", "true",
                    "false", "schemas"}

RECURSIVE MatchHere(_, _, _)
MatchHere(pattern, text, i) ==
    IF pattern = <<>> THEN TRUE
    ELSE LET e == Head(pattern)
             rest == Tail(pattern)
             here == i <= Len(text)
         IN  CASE e = "^" ->
                    (i = 1 \/ text[i - 1] = "\n") /\ MatchHere(rest, text, i)
               [] e = "$" ->
                    (i = Len(text) + 1 \/ (here /\ text[i] = "\n"))
                    /\ MatchHere(rest, text, i)
               [] e = "\\s" ->
                    here /\ text[i] \in Whitespace /\ MatchHere(rest, text, i + 1)
               [] e = "\\s*" ->
                    \/ MatchHere(rest, text, i)
                    \/ here /\ text[i] \in Whitespace /\ MatchHere(pattern, text, i + 1)
               [] e = "[^:]*" ->
                    \/ MatchHere(rest, text, i)
                    \/ here /\ text[i] # ":" /\ MatchHere(pattern, text, i + 1)
               [] e = "/[^:]+" ->
                    here /\ text[i] \in SlashTokens
                    /\ MatchHere(<<"[^:]*">> \o rest, text, i + 1)
               [] e = "(get|post|put|patch|delete|head|options|trace)" ->
                    here /\ text[i] \in HttpVerbs /\ MatchHere(rest, text, i + 1)
               [] e = "[A-Za-z0-9_\\-]+" ->
                    here /\ text[i] \in KeyTokens /\ MatchHere(rest, text, i + 1)
               [] e = "['\"]" ->
                    here /\ text[i] \in {"'", "\""} /\ MatchHere(rest, text, i + 1)
               [] OTHER ->
                    here /\ text[i] = e /\ MatchHere(rest, text, i + 1)

\* pattern.match(line)
re_match(pattern, line) == MatchHere(pattern, line, 1)

\* re.search(pattern, text)
re_search(pattern, text) == \E i \in 1..(Len(text) + 1) : MatchHere(pattern, text, i)

\* "\n".join(lines)
RECURSIVE join(_)
join(ls) ==
    IF ls = <<>> THEN <<>>
    ELSE IF Len(ls) = 1 THEN ls[1]
    ELSE ls[1] \o <<"\n">> \o join(Tail(ls))

\* str.upper, on the HTTP verbs
upper(method) ==
    CASE method = "get" -> "GET"
      [] method = "post" -> "POST"
      [] method = "put" -> "PUT"
      [] method = "patch" -> "PATCH"
      [] method = "delete" -> "DELETE"
      [] method = "head" -> "HEAD"
      [] method = "options" -> "OPTIONS"
      [] method = "trace" -> "TRACE"
      [] OTHER -> method

(***************************************************************************)
(* OpenAPI micro-parser                                                    *)
(***************************************************************************)
HTTP_METHOD_PATTERN ==
    <<"^", "\\s", "\\s", "\\s", "\\s",
      "(get|post|put|patch|delete|head|options|trace)", ":", "\\s*", "$">>

PATH_PATTERN == <<"^", "\\s", "\\s", "/[^:]+", ":", "\\s*", "$">>

\* path_match.group(1): from the "/" to the colon
path_group(line) ==
    LET colon == CHOOSE c \in 4..Len(line) :
                     line[c] = ":" /\ \A k \in 3..(c - 1) : line[k] # ":"
    IN  SubSeq(line, 3, colon - 1)

\* method_match.group(1)
method_group(line) == line[5]

\* the inner while loop: the first marker line at or after start, or the end
RECURSIVE block_end(_, _)
block_end(ls, end) ==
    IF end > Len(ls) THEN end
    ELSE IF re_match(PATH_PATTERN, ls[end]) \/ re_match(HTTP_METHOD_PATTERN, ls[end])
         THEN end
    ELSE block_end(ls, end + 1)

\* the outer while loop, from index on with this current_path ("" is <<>>)
RECURSIVE extract_from(_, _, _)
extract_from(ls, index, current_path) ==
    IF index > Len(ls) THEN <<>>
    ELSE IF re_match(PATH_PATTERN, ls[index])
         THEN extract_from(ls, index + 1, path_group(ls[index]))
    ELSE IF re_match(HTTP_METHOD_PATTERN, ls[index]) /\ current_path # <<>>
         THEN LET start == index + 1
                  end == block_end(ls, start)
                  block == join(SubSeq(ls, start, end - 1))
              IN  << <<current_path, method_group(ls[index]), block>> >>
                  \o extract_from(ls, end, current_path)
    ELSE extract_from(ls, index + 1, current_path)

\* fault variant: a block ends at the next path marker only
extract_operation_blocks_PathEndsBlock(ls) ==
    LET RECURSIVE from(_, _)
        from(index, current_path) ==
            IF index > Len(ls) THEN <<>>
            ELSE IF re_match(PATH_PATTERN, ls[index])
                 THEN from(index + 1, path_group(ls[index]))
            ELSE IF re_match(HTTP_METHOD_PATTERN, ls[index]) /\ current_path # <<>>
                 THEN LET paths_after ==
                              {e \in (index + 1)..Len(ls) : re_match(PATH_PATTERN, ls[e])}
                          end == IF paths_after = {} THEN Len(ls) + 1
                                 ELSE CHOOSE e \in paths_after :
                                          \A o \in paths_after : e <= o
                      IN  << <<current_path, method_group(ls[index]),
                               join(SubSeq(ls, index + 1, end - 1))>> >>
                          \o from(end, current_path)
            ELSE from(index + 1, current_path)
    IN  from(1, <<>>)

extract_operation_blocks(ls) == extract_from(ls, 1, <<>>)

(***************************************************************************)
(* DPoP enforcement.  A file of the work tree is a record: kind is "file", *)
(* "dir", "absent" or "unreadable" (read_text raises OSError), and lines   *)
(* is what read_text(...).splitlines() returns for a file.                 *)
(***************************************************************************)
\* n spaces
Indent(n) == [i \in 1..n |-> " "]

\* n times \s
Spaces(n) == [i \in 1..n |-> "\\s"]

\* (?m)^\s{6}security:\s*$
has_security(block) ==
    re_search(<<"^">> \o Spaces(6) \o <<"security", ":", "\\s*", "$">>, block)

\* \$ref:\s*['"]#\/components\/parameters\/DPoP['"]
has_dpop_ref(block) ==
    re_search(<<"$ref", ":", "\\s*", "['\"]", "#/components/parameters/DPoP", "['\"]">>,
              block)

operation_requires_dpop(block) ==
    IF ~has_security(block) THEN FALSE
    ELSE IF has_dpop_ref(block) THEN TRUE
    ELSE /\ contains(block, <<"name", ":", " ", "DPoP">>)
         /\ contains(block, <<"in", ":", " ", "header">>)
         /\ re_search(<<"^", "\\s*", "required", ":", "\\s*", "true", "\\s*", "$">>,
                      block)

\* the first index from index on whose line matches pattern, or Len(ls) + 1
RECURSIVE first_match(_, _, _)
first_match(pattern, ls, index) ==
    IF index > Len(ls) THEN index
    ELSE IF re_match(pattern, ls[index]) THEN index
    ELSE first_match(pattern, ls, index + 1)

spec_has_required_dpop_parameter(ls) ==
    LET key == first_match(<<"^">> \o Spaces(4) \o <<"DPoP", ":", "\\s*", "$">>, ls, 1)
        start == key + 1
        stop == first_match(<<"^">> \o Spaces(4) \o <<"[A-Za-z0-9_\\-]+", ":", "\\s*", "$">>,
                            ls, start)
        block == join(SubSeq(ls, start, stop - 1))
    IN  IF key > Len(ls) THEN FALSE
        ELSE /\ re_search(<<"^">> \o Spaces(6)
                             \o <<"name", ":", "\\s*", "DPoP", "\\s*", "$">>, block)
             /\ re_search(<<"^">> \o Spaces(6)
                             \o <<"in", ":", "\\s*", "header", "\\s*", "$">>, block)
             /\ re_search(<<"^">> \o Spaces(6)
                             \o <<"required", ":", "\\s*", "true", "\\s*", "$">>, block)

\* the spec files of the samples, in str order
SpecPathsInOrder ==
    << <<"api", "/", "openapi", "/", "public", ".yml">>,
       <<"api", "/", "openapi", "/", "sample", ".yaml">> >>

\* sorted(path for path in set(tracked_files) if ...)
openapi_specs(tracked_files) ==
    SelectSeq(SpecPathsInOrder,
              LAMBDA path :
                  /\ path \in Range(tracked_files)
                  /\ startswith(path, <<"api", "/", "openapi", "/">>)
                  /\ (endswith(path, <<".yaml">>) \/ endswith(path, <<".yml">>)))

\* the operation-level issues of one document, in document order
RECURSIVE operation_issues(_, _)
operation_issues(spec, ops) ==
    IF ops = <<>> THEN <<>>
    ELSE LET path == Head(ops)[1]
             method == Head(ops)[2]
             block == Head(ops)[3]
         IN  (IF has_security(block) /\ ~operation_requires_dpop(block)
              THEN << spec \o <<":">> \o path
                      \o <<" ", upper(method), " ",
                           "missing required DPoP header parameter">> >>
              ELSE <<>>)
             \o operation_issues(spec, Tail(ops))

\* the body of the loop over specs, for one spec that was read
document_issues(spec, ls) ==
    LET ops == extract_operation_blocks(ls)
        protected_operations == SelectSeq(ops, LAMBDA op : has_security(op[3]))
    IN  operation_issues(spec, ops)
        \o (IF protected_operations # <<>> /\ ~spec_has_required_dpop_parameter(ls)
            THEN << spec \o <<":", " ",
                      "components.parameters.DPoP missing or not required=true header">> >>
            ELSE <<>>)

RECURSIVE dpop_issues_of(_, _)
dpop_issues_of(root, specs) ==
    IF specs = <<>> THEN <<>>
    ELSE LET spec == Head(specs)
         IN  (IF root[spec].kind = "file" THEN document_issues(spec, root[spec].lines)
              ELSE <<>>)
             \o dpop_issues_of(root, Tail(specs))

collect_openapi_dpop_issues(root, tracked_files) ==
    dpop_issues_of(root, openapi_specs(tracked_files))

(***************************************************************************)
(* DpopSpec: collect_openapi_dpop_issues on a work tree whose sample.yaml  *)
(* is any document of at most MaxChunks chunks.                            *)
(***************************************************************************)
SamplePath == <<"api", "/", "openapi", "/", "sample", ".yaml">>

PublicPath == <<"api", "/", "openapi", "/", "public", ".yml">>

ReadmePath == <<"api", "/", "openapi", "/", "README.md">>

\* the six lines of a components block whose DPoP parameter has this required
ComponentsBlock(required) ==
    << <<"components", ":">>,
       Indent(2) \o <<"parameters", ":">>,
       Indent(4) \o <<"DPoP", ":">>,
       Indent(6) \o <<"name", ":", " ", "DPoP">>,
       Indent(6) \o <<"in", ":", " ", "header">>,
       Indent(6) \o <<"required", ":", " ", required>> >>

\* the pieces documents are made of
DocChunks ==
    { << Indent(2) \o <<"/secure", ":">> >>,
      << Indent(4) \o <<"get", ":">> >>,
      << Indent(4) \o <<"get", ":">>, Indent(6) \o <<"security", ":">> >>,
      << Indent(4) \o <<"post", ":">>, Indent(6) \o <<"security", ":">> >>,
      << Indent(8) \o <<"-", " ", "$ref", ":", " ", "'",
                        "#/components/parameters/DPoP", "'">> >>,
      << <<>>, Indent(5) \o <<"security", ":">> >>,
      ComponentsBlock("true"),
      ComponentsBlock("false") }

RECURSIVE Flatten(_)
Flatten(chunks) ==
    IF chunks = <<>> THEN <<>> ELSE Head(chunks) \o Flatten(Tail(chunks))

File(ls) == [kind |-> "file", lines |-> ls]

NoFile(kind) == [kind |-> kind, lines |-> <<>>]

\* a document with one protected operation and no DPoP parameter
PublicDocument ==
    << Indent(2) \o <<"/public", ":">>,
       Indent(4) \o <<"get", ":">>,
       Indent(6) \o <<"security", ":">> >>

\* tracked-file lists: repeats, a non-YAML file, a second spec
DpopTrackedLists ==
    { <<>>, <<SamplePath, SamplePath>>, <<SamplePath, ReadmePath, PublicPath>> }

DpopInit ==
    /\ pc = "scan"
    /\ EvalIdle
    /\ mode = <<"", <<>>, <<>>>>
    /\ changed_files = <<>>
    /\ deleted_files = <<>>
    /\ calls = <<>>
    /\ output = <<>>
    /\ cli_return = -1
    /\ repo_docs = Range(REQUIRED_DOCS)
    /\ vcs = NoVcs
    /\ operations = <<>>
    /\ LocalsIdle
    /\ \/ /\ lines \in {Flatten(chunks) : chunks \in SeqsUpTo(DocChunks, MaxChunks)}
          /\ all_tracked_files = <<SamplePath>>
          /\ disk = [path \in {SamplePath} |-> File(lines)]
       \/ /\ lines = PublicDocument
          /\ all_tracked_files \in DpopTrackedLists
          /\ \E sample \in {File(lines), NoFile("absent"), NoFile("dir"),
                              NoFile("unreadable")},
                public \in {File(lines), NoFile("absent")} :
                disk = [path \in {SamplePath, PublicPath, ReadmePath} |->
                           IF path = SamplePath THEN sample
                           ELSE IF path = PublicPath THEN public
                           ELSE File(lines)]

\* openapi_dpop_issues=collect_openapi_dpop_issues(cwd, all_tracked_files)
CollectOpenapiDpopIssues ==
    /\ pc = "scan"
    /\ ctx' = [ctx EXCEPT
                  !.openapi_dpop_issues =
                      collect_openapi_dpop_issues(disk, all_tracked_files)]
    /\ pc' = "scanned"
    /\ UNCHANGED <<result, edits, mode, changed_files, deleted_files, calls, output,
                   cli_return, repo_docs, vcs>>
    /\ ScanUnchanged

DpopNext == CollectOpenapiDpopIssues

DpopSpec == DpopInit /\ [][DpopNext]_vars

(***************************************************************************)
(* ParameterSpec: operation_requires_dpop and                              *)
(* spec_has_required_dpop_parameter, each called once on the text in       *)
(* lines, as the unit tests call them.                                     *)
(***************************************************************************)
\* the pieces operation bodies are made of
BodyChunks ==
    { << Indent(6) \o <<"security", ":">> >>,
      << <<>>, Indent(5) \o <<"security", ":">> >>,
      << Indent(8) \o <<"-", " ", "$ref", ":", " ", "'",
                        "#/components/parameters/DPoP", "'">> >>,
      << Indent(8) \o <<"-", " ", "$ref", ":", " ", "'",
                        "#/components/parameters/InteractionId", "'">> >>,
      << Indent(10) \o <<"name", ":", " ", "DPoP">>,
         Indent(10) \o <<"in", ":", " ", "header">> >>,
      << Indent(10) \o <<"required", ":", " ", "true">> >> }

\* the pieces components sections are made of
SectionChunks ==
    { << Indent(2) \o <<"parameters", ":">>, Indent(4) \o <<"DPoP", ":">> >>,
      << Indent(2) \o <<"schemas", ":">>, Indent(4) \o <<"DPoP", ":">> >>,
      << Indent(4) \o <<"InteractionId", ":">> >>,
      << Indent(6) \o <<"name", ":", " ", "DPoP">>,
         Indent(6) \o <<"in", ":", " ", "header">> >>,
      << Indent(6) \o <<"required", ":", " ", "true">> >>,
      << Indent(6) \o <<"required", ":", " ", "false">> >>,
      << <<>>, Indent(5) \o <<"required", ":", " ", "true">> >> }

ParameterInit ==
    /\ pc = "build"
    /\ EvalIdle
    /\ mode = <<"", <<>>, <<>>>>
    /\ changed_files = <<>>
    /\ deleted_files = <<>>
    /\ calls = <<>>
    /\ output = <<>>
    /\ cli_return = -1
    /\ repo_docs = Range(REQUIRED_DOCS)
    /\ vcs = NoVcs
    /\ all_tracked_files = <<>>
    /\ disk = <<>>
    /\ \/ lines \in {Flatten(chunks) : chunks \in SeqsUpTo(BodyChunks, MaxChunks)}
       \/ lines \in {<<<<"components", ":">>>> \o Flatten(chunks) :
                         chunks \in SeqsUpTo(SectionChunks, MaxChunks)}
    /\ operations = <<>>
    /\ LocalsIdle

\* validator.operation_requires_dpop(block), block being the joined lines
OperationRequiresDpop ==
    /\ pc = "build"
    /\ verdict' = operation_requires_dpop(join(lines))
    /\ pc' = "required"
    /\ UNCHANGED <<ctx, result, edits, mode, changed_files, deleted_files, calls,
                   output, cli_return, repo_docs, vcs, all_tracked_files, disk, lines,
                   operations, frame, heap, evaluations>>

\* validator.spec_has_required_dpop_parameter(lines)
SpecHasRequiredDpopParameter ==
    /\ pc = "build"
    /\ verdict' = spec_has_required_dpop_parameter(lines)
    /\ pc' = "declared"
    /\ UNCHANGED <<ctx, result, edits, mode, changed_files, deleted_files, calls,
                   output, cli_return, repo_docs, vcs, all_tracked_files, disk, lines,
                   operations, frame, heap, evaluations>>

ParameterNext == OperationRequiresDpop \/ SpecHasRequiredDpopParameter

ParameterSpec == ParameterInit /\ [][ParameterNext]_vars

(***************************************************************************)
(* The structural check of the required OpenAPI specs                      *)
(***************************************************************************)
NON_EMPTY_OPENAPI_SPECS ==
    << <<"api", "/", "openapi", "/", "customer-context", ".yaml">>,
       <<"api", "/", "openapi", "/", "loan-context", ".yaml">>,
       <<"api", "/", "openapi", "/", "payment-context", ".yaml">>,
       <<"api", "/", "openapi", "/", "risk-context", ".yaml">>,
       <<"api", "/", "openapi", "/", "compliance-context", ".yaml">> >>

\* f"{spec}: {text}"
StructureIssue(spec, text) == spec \o <<":", " ", text>>

\* fault variant: no continue after the empty-paths issue
structure_issues_of_NoContinue(root, tracked, spec) ==
    IF spec \notin tracked
    THEN <<StructureIssue(spec, "required OpenAPI spec is not tracked")>>
    ELSE IF root[spec].kind \in {"absent", "dir"}
    THEN <<StructureIssue(spec, "required OpenAPI spec file is missing")>>
    ELSE IF root[spec].kind = "unreadable"
    THEN <<StructureIssue(spec, "unable to read OpenAPI spec")>>
    ELSE LET ls == root[spec].lines
         IN  (IF re_search(<<"^", "paths", ":", "\\s*", "{}", "\\s*", "$">>, join(ls))
              THEN <<StructureIssue(spec, "paths are empty (paths: {})")>> ELSE <<>>)
             \o (IF ~\E k \in 1..Len(ls) : re_match(PATH_PATTERN, ls[k])
                 THEN <<StructureIssue(spec, "no concrete API paths found under paths")>>
                 ELSE <<>>)

\* the body of the loop, for one required spec; content is the join of its lines
structure_issues_of(root, tracked, spec) ==
    IF spec \notin tracked
    THEN <<StructureIssue(spec, "required OpenAPI spec is not tracked")>>
    ELSE IF root[spec].kind \in {"absent", "dir"}
    THEN <<StructureIssue(spec, "required OpenAPI spec file is missing")>>
    ELSE IF root[spec].kind = "unreadable"
    THEN <<StructureIssue(spec, "unable to read OpenAPI spec")>>
    ELSE LET ls == root[spec].lines
             content == join(ls)
         IN  IF re_search(<<"^", "paths", ":", "\\s*", "{}", "\\s*", "$">>, content)
             THEN <<StructureIssue(spec, "paths are empty (paths: {})")>>
             ELSE IF ~\E k \in 1..Len(ls) : re_match(PATH_PATTERN, ls[k])
             THEN <<StructureIssue(spec, "no concrete API paths found under paths")>>
             ELSE <<>>

RECURSIVE structure_issues_from(_, _, _)
structure_issues_from(root, tracked, specs) ==
    IF specs = <<>> THEN <<>>
    ELSE structure_issues_of(root, tracked, Head(specs))
         \o structure_issues_from(root, tracked, Tail(specs))

collect_openapi_structure_issues(root, tracked_files) ==
    structure_issues_from(root, Range(tracked_files), NON_EMPTY_OPENAPI_SPECS)

(***************************************************************************)
(* StructureSpec: collect_openapi_structure_issues on work trees where one *)
(* required spec is in any state, with any content of at most              *)
(* MaxContentLines lines, and each other one is untracked, a stub or a     *)
(* document with a concrete path.                                          *)
(***************************************************************************)
ContentLines ==
    { <<"openapi", ":", " ", "3.0.3">>,
      <<"paths", ":", " ", "{}">>,
      <<"paths", ":">>,
      Indent(2) \o <<"{}">>,
      Indent(2) \o <<"/api/v1/example", ":">> }

\* a required spec in the work tree: whether git tracks it, what is on disk
Situation(tracked, file) == [tracked |-> tracked, file |-> file]

AnySituations ==
    {Situation(FALSE, File(<<>>))}
    \cup {Situation(TRUE, NoFile(kind)) : kind \in {"absent", "dir", "unreadable"}}
    \cup {Situation(TRUE, File(ls)) : ls \in SeqsUpTo(ContentLines, MaxContentLines)}

PlainSituations ==
    { Situation(FALSE, File(<<>>)),
      Situation(TRUE, File(<< <<"openapi", ":", " ", "3.0.3">>, <<"paths", ":", " ", "{}">> >>)),
      Situation(TRUE, File(<< <<"paths", ":">>, Indent(2) \o <<"/api/v1/example", ":">> >>)) }

StructureInit ==
    /\ pc = "scan"
    /\ EvalIdle
    /\ mode = <<"", <<>>, <<>>>>
    /\ changed_files = <<>>
    /\ deleted_files = <<>>
    /\ calls = <<>>
    /\ output = <<>>
    /\ cli_return = -1
    /\ repo_docs = Range(REQUIRED_DOCS)
    /\ vcs = NoVcs
    /\ lines = <<>>
    /\ operations = <<>>
    /\ LocalsIdle
    /\ \E which \in 1..Len(NON_EMPTY_OPENAPI_SPECS), any \in AnySituations,
          plain \in [1..Len(NON_EMPTY_OPENAPI_SPECS) -> PlainSituations] :
          LET at == [k \in 1..Len(NON_EMPTY_OPENAPI_SPECS) |->
                        IF k = which THEN any ELSE plain[k]]
          IN  /\ all_tracked_files =
                     SelectSeq(NON_EMPTY_OPENAPI_SPECS,
                               LAMBDA spec :
                                   \E k \in 1..Len(NON_EMPTY_OPENAPI_SPECS) :
                                       NON_EMPTY_OPENAPI_SPECS[k] = spec /\ at[k].tracked)
              /\ disk = [spec \in Range(NON_EMPTY_OPENAPI_SPECS) |->
                            at[CHOOSE k \in 1..Len(NON_EMPTY_OPENAPI_SPECS) :
                                   NON_EMPTY_OPENAPI_SPECS[k] = spec].file]

\* openapi_structure_issues = collect_openapi_structure_issues(root, all_tracked_files)
CollectOpenapiStructureIssues ==
    /\ pc = "scan"
    /\ ctx' = [ctx EXCEPT
                  !.openapi_structure_issues =
                      collect_openapi_structure_issues(disk, all_tracked_files)]
    /\ pc' = "scanned"
    /\ UNCHANGED <<result, edits, mode, changed_files, deleted_files, calls, output,
                   cli_return, repo_docs, vcs>>
    /\ ScanUnchanged

StructureNext == CollectOpenapiStructureIssues

StructureSpec == StructureInit /\ [][StructureNext]_vars

(***************************************************************************)
(* LegacySpec: scan_source_files_for_legacy_use_case_numbering.  The lines *)
(* of the scanned files are sequences of characters; paths are sequences   *)
(* of components, separators and suffixes.                                 *)
(***************************************************************************)
SCANNABLE_SOURCE_SUFFIXES ==
    { ".java", ".kt", ".groovy", ".kts", ".yml", ".yaml", ".properties", ".xml",
      ".json", ".md", ".txt", ".adoc", ".sql", ".js", ".ts", ".tsx", ".jsx", ".py",
      ".sh" }

\* the characters \d matches
Digits == {"0", "1", "2", "3", "4", "5", "6", "7", "8", "9"}

\* (?:UC|Uc|uc)\d{2,3} tried at position i: the length matched, 0 for no match
legacy_match_at(line, i) ==
    IF /\ i + 3 <= Len(line)
       /\ SubSeq(line, i, i + 1) \in {<<"U", "C">>, <<"U", "c">>, <<"u", "c">>}
       /\ line[i + 2] \in Digits
       /\ line[i + 3] \in Digits
    THEN IF i + 4 <= Len(line) /\ line[i + 4] \in Digits THEN 5 ELSE 4
    ELSE 0

\* LEGACY_USE_CASE_PATTERN.search(line): match.group(0) of the leftmost match
\* from position i on, <<>> for None
RECURSIVE LEGACY_USE_CASE_PATTERN(_, _)
LEGACY_USE_CASE_PATTERN(line, i) ==
    IF i > Len(line) THEN <<>>
    ELSE IF legacy_match_at(line, i) > 0
         THEN SubSeq(line, i, i + legacy_match_at(line, i) - 1)
         ELSE LEGACY_USE_CASE_PATTERN(line, i + 1)

is_scannable_source_file(path) ==
    LET normalized == [i \in 1..Len(path) |-> IF path[i] = "\\" THEN "/" ELSE path[i]]
        rooted == <<"/">> \o normalized
        lowered == lower(normalized)
    IN  IF ~contains(rooted, <<"/", "src", "/">>) THEN FALSE
        ELSE IF \/ startswith(normalized, <<".git", "/">>)
                \/ startswith(normalized, <<".gradle", "/">>) THEN FALSE
        ELSE IF \/ contains(rooted, <<"/", "build", "/">>)
                \/ contains(rooted, <<"/", "target", "/">>)
                \/ contains(rooted, <<"/", "out", "/">>) THEN FALSE
        ELSE \E suffix \in SCANNABLE_SOURCE_SUFFIXES : endswith(lowered, <<suffix>>)

ExamplePath ==
    <<"open-finance-context", "/", "src", "/", "main", "/", "java", "/", "Example", ".java">>

\* the tracked paths of the samples, in str order
ScanPathsInOrder ==
    << <<".git", "/", "src", "/", "hook", ".sh">>,
       <<"app", "/", "src", "/", "build", "/", "Gen", ".java">>,
       <<"app", "\\", "src", "\\", "Win", ".KT">>,
       <<"docs", "/", "README", ".md">>,
       ExamplePath >>

\* str(index)
IndexText == <<"1", "2", "3">>

\* the hits of the lines of one file, from line index on
RECURSIVE line_hits(_, _, _)
line_hits(rel_path, content, index) ==
    IF index > Len(content) THEN <<>>
    ELSE LET match == LEGACY_USE_CASE_PATTERN(content[index], 1)
         IN  (IF match # <<>>
              THEN << rel_path \o <<":", IndexText[index], ":", " ">> \o match >>
              ELSE <<>>)
             \o line_hits(rel_path, content, index + 1)

RECURSIVE scan_from(_, _)
scan_from(root, paths) ==
    IF paths = <<>> THEN <<>>
    ELSE LET rel_path == Head(paths)
         IN  (IF ~is_scannable_source_file(rel_path) THEN <<>>
              ELSE IF root[rel_path].kind \in {"absent", "dir"} THEN <<>>
              ELSE IF root[rel_path].kind = "unreadable" THEN <<>>
              ELSE line_hits(rel_path, root[rel_path].lines, 1))
             \o scan_from(root, Tail(paths))

\* for rel_path in sorted(set(tracked_files))
scan_source_files_for_legacy_use_case_numbering(root, tracked_files) ==
    scan_from(root, SelectSeq(ScanPathsInOrder, LAMBDA path : path \in Range(tracked_files)))

\* the characters of the scanned lines
TagChars == {"U", "u", "C", "c", "1", "x"}

\* the two lines of the files whose paths vary
ExampleText == << <<"x", "x">>, <<"x", "U", "c", "1", "1", "x">> >>

ScanTrackedLists ==
    { <<ExamplePath, ScanPathsInOrder[4]>>,
      <<ExamplePath, ScanPathsInOrder[3], ExamplePath>>,
      <<ExamplePath, ScanPathsInOrder[4], ScanPathsInOrder[3], ScanPathsInOrder[2],
        ScanPathsInOrder[1]>> }

LegacyInit ==
    /\ pc = "scan"
    /\ EvalIdle
    /\ mode = <<"", <<>>, <<>>>>
    /\ changed_files = <<>>
    /\ deleted_files = <<>>
    /\ calls = <<>>
    /\ output = <<>>
    /\ cli_return = -1
    /\ repo_docs = Range(REQUIRED_DOCS)
    /\ vcs = NoVcs
    /\ operations = <<>>
    /\ lines = <<>>
    /\ LocalsIdle
    /\ \/ /\ all_tracked_files = <<ExamplePath>>
          /\ \E line \in SeqsUpTo(TagChars, MaxLineLen) :
                disk = [path \in {ExamplePath} |-> File(<<line>>)]
       \/ /\ all_tracked_files \in ScanTrackedLists
          /\ \E example, win \in {File(ExampleText), NoFile("absent"), NoFile("dir"),
                                   NoFile("unreadable")} :
                disk = [path \in Range(ScanPathsInOrder) |->
                           IF path = ExamplePath THEN example
                           ELSE IF path = ScanPathsInOrder[3] THEN win
                           ELSE File(ExampleText)]

\* legacy_use_case_hits = scan_source_files_for_legacy_use_case_numbering(cwd, ...)
ScanSourceFiles ==
    /\ pc = "scan"
    /\ ctx' = [ctx EXCEPT
                  !.legacy_use_case_hits =
                      scan_source_files_for_legacy_use_case_numbering(disk,
                                                                      all_tracked_files)]
    /\ pc' = "scanned"
    /\ UNCHANGED <<result, edits, mode, changed_files, deleted_files, calls, output,
                   cli_return, repo_docs, vcs>>
    /\ ScanUnchanged

LegacyNext == ScanSourceFiles

LegacySpec == LegacyInit /\ [][LegacyNext]_vars

(***************************************************************************)
(* ExtractSpec: extract_operation_blocks on every list of at most MaxLines *)
(* lines of an OpenAPI document.                                           *)
(***************************************************************************)
\* lines at depths 0, 2, 3, 4, 6 and 8: keys, path keys, verbs and a list item
ExtractLines ==
    { <<"components", ":">>,
      Indent(2) \o <<"/accounts", ":">>,
      Indent(2) \o <<"/secure", ":">>,
      Indent(3) \o <<"/public", ":">>,
      Indent(4) \o <<"get", ":">>,
      Indent(4) \o <<"post", ":">>,
      Indent(4) \o <<"summary", ":">>,
      Indent(6) \o <<"security", ":">>,
      Indent(8) \o <<"-", " ", "bearerAuth", ":", " ", "[]">> }

ExtractInit ==
    /\ pc = "build"
    /\ EvalIdle
    /\ mode = <<"", <<>>, <<>>>>
    /\ changed_files = <<>>
    /\ deleted_files = <<>>
    /\ calls = <<>>
    /\ output = <<>>
    /\ cli_return = -1
    /\ repo_docs = Range(REQUIRED_DOCS)
    /\ vcs = NoVcs
    /\ all_tracked_files = <<>>
    /\ disk = <<>>
    /\ lines \in SeqsUpTo(ExtractLines, MaxLines)
    /\ operations = <<>>
    /\ LocalsIdle

\* blocks = validator.extract_operation_blocks(lines)
ExtractOperationBlocks ==
    /\ pc = "build"
    /\ operations' = extract_operation_blocks(lines)
    /\ pc' = "extracted"
    /\ UNCHANGED <<ctx, result, edits, mode, changed_files, deleted_files, calls,
                   output, cli_return, repo_docs, vcs, all_tracked_files, disk, lines>>
    /\ LocalsUnchanged

ExtractNext == ExtractOperationBlocks

ExtractSpec == ExtractInit /\ [][ExtractNext]_vars

(***************************************************************************)
(* LoopSpec: extract_operation_blocks one iteration of its outer while     *)
(* loop at a time.  frame holds the locals index (counted from 0, as in    *)
(* the code) and current_path between two iterations; the inner while loop *)
(* is block_end.  LoopLiveSpec adds that the running call always takes its *)
(* next step: the function is sequential code that nothing suspends.       *)
(***************************************************************************)
LoopInit ==
    /\ pc = "loop"
    /\ EvalIdle
    /\ mode = <<"", <<>>, <<>>>>
    /\ changed_files = <<>>
    /\ deleted_files = <<>>
    /\ calls = <<>>
    /\ output = <<>>
    /\ cli_return = -1
    /\ repo_docs = Range(REQUIRED_DOCS)
    /\ vcs = NoVcs
    /\ all_tracked_files = <<>>
    /\ disk = <<>>
    /\ lines \in SeqsUpTo(ExtractLines, MaxLines)
    /\ operations = <<>>
    /\ LocalsIdle

\* fault variant: a line that is no marker does not advance the index
Iterate_StaysOnPlainLine ==
    /\ pc = "loop"
    /\ frame.index < Len(lines)
    /\ LET line == lines[frame.index + 1]
       IN  IF re_match(PATH_PATTERN, line)
           THEN /\ frame' = [index |-> frame.index + 1, current_path |-> path_group(line)]
                /\ UNCHANGED operations
           ELSE IF re_match(HTTP_METHOD_PATTERN, line) /\ frame.current_path # <<>>
           THEN LET start == frame.index + 1
                    end == block_end(lines, start + 1) - 1
                    block == join(SubSeq(lines, start + 1, end))
                IN  /\ operations' =
                           Append(operations,
                                  <<frame.current_path, method_group(line), block>>)
                    /\ frame' = [frame EXCEPT !.index = end]
           ELSE UNCHANGED <<frame, operations>>
    /\ UNCHANGED <<pc, ctx, result, edits, mode, changed_files, deleted_files, calls,
                   output, cli_return, repo_docs, vcs, all_tracked_files, disk, lines,
                   heap, evaluations, verdict>>

\* one iteration of `while index < len(lines)`
Iterate ==
    /\ pc = "loop"
    /\ frame.index < Len(lines)
    /\ LET line == lines[frame.index + 1]
       IN  IF re_match(PATH_PATTERN, line)
           THEN /\ frame' = [index |-> frame.index + 1, current_path |-> path_group(line)]
                /\ UNCHANGED operations
           ELSE IF re_match(HTTP_METHOD_PATTERN, line) /\ frame.current_path # <<>>
           THEN LET start == frame.index + 1
                    end == block_end(lines, start + 1) - 1
                    block == join(SubSeq(lines, start + 1, end))
                IN  /\ operations' =
                           Append(operations,
                                  <<frame.current_path, method_group(line), block>>)
                    /\ frame' = [frame EXCEPT !.index = end]
           ELSE /\ frame' = [frame EXCEPT !.index = frame.index + 1]
                /\ UNCHANGED operations
    /\ UNCHANGED <<pc, ctx, result, edits, mode, changed_files, deleted_files, calls,
                   output, cli_return, repo_docs, vcs, all_tracked_files, disk, lines,
                   heap, evaluations, verdict>>

\* the loop condition fails: return operations
ReturnOperations ==
    /\ pc = "loop"
    /\ ~(frame.index < Len(lines))
    /\ pc' = "returned"
    /\ UNCHANGED <<ctx, result, edits, mode, changed_files, deleted_files, calls,
                   output, cli_return, repo_docs, vcs, all_tracked_files, disk, lines,
                   operations>>
    /\ LocalsUnchanged

LoopNext == Iterate \/ ReturnOperations

LoopSpec == LoopInit /\ [][LoopNext]_vars

LoopLiveSpec == LoopSpec /\ WF_vars(LoopNext)

(***************************************************************************)
(* ModeSpec and DiffSpec: the diff source resolver inside a cli run.       *)
(* ModeSpec is the step that calls detect_diff_mode, with the environment  *)
(* and the finished git commands it read kept in vcs.  DiffSpec is a run   *)
(* up to the return on an empty change set, with the two finished git diff *)
(* commands of collect_changed_and_deleted kept in vcs; they are two       *)
(* processes, each with its own exit status and its own view of the tree.  *)
(***************************************************************************)
\* os.environ as far as detect_diff_mode reads it; <<>> is unset or empty
ResolverEnvs ==
    [GOVERNANCE_DIFF_MODE : {<<>>, <<"staged">>, <<" ", "STAGED", "\n">>,
                             <<"working-tree">>, <<"Working-Tree">>, <<"commit-range">>},
     GITHUB_BASE_SHA : {<<>>, <<"abc">>},
     GITHUB_SHA : {<<>>, <<"def">>},
     CI : {<<>>, <<"true">>, <<"false">>}]

ResolverPaths == { <<"a.txt">>, <<"bankwide", "/", "build.gradle">> }

ResolverEntries == {<<st, p>> : st \in {"M", "D"}, p \in ResolverPaths}

ResolverDiffs == SeqsUpTo(ResolverEntries, MaxDiffLines)

DiffInit ==
    /\ pc = "cli"
    /\ EvalIdle
    /\ mode = <<"", <<>>, <<>>>>
    /\ changed_files = <<>>
    /\ deleted_files = <<>>
    /\ calls = <<>>
    /\ output = <<>>
    /\ cli_return = -1
    /\ repo_docs = Range(REQUIRED_DOCS)
    /\ vcs = NoVcs
    /\ ScanIdle

\* mode, base_ref, head_ref = detect_diff_mode(root, os.environ)
ResolveDiffMode ==
    /\ pc = "cli"
    /\ \E env \in ResolverEnvs, rc \in ReturnCodes, rc2 \in ReturnCodes :
         LET rev_parse == Completed(rc, <<>>)
             hash_object == Completed(rc2, << <<EMPTY_TREE, "\n">> >>)
         IN  /\ DetectDiffModeStep(env, rev_parse, hash_object)
             /\ vcs' = [step |-> "detect", env |-> env,
                        rev_parse |-> rev_parse, hash_object |-> hash_object]

\* changed_files, deleted_files = collect_changed_and_deleted(root, mode, base_ref, head_ref)
ResolveChanged ==
    /\ pc = "collect"
    /\ \E diff \in ResolverDiffs, diff2 \in ResolverDiffs,
          rc \in ReturnCodes, rc2 \in ReturnCodes :
         LET name_only == Completed(rc, name_only_lines(diff))
             with_status == Completed(rc2, name_status_lines(diff2))
         IN  /\ CollectChangedStep(name_only, with_status)
             /\ vcs' = [step |-> "collect", diff |-> diff, diff2 |-> diff2,
                        name_only |-> name_only, with_status |-> with_status]

ModeNext == ResolveDiffMode

ModeSpec == DiffInit /\ [][ModeNext]_vars

DiffNext ==
    \/ CliDetectDiffMode
    \/ ResolveChanged

DiffSpec == DiffInit /\ [][DiffNext]_vars

(***************************************************************************)
(* StrictSpec: a cli run in a repository where git ls-files lists          *)
(* bankwide/build.gradle under the deprecated roots and the environment    *)
(* has STRICT_DEPRECATED_ROOTS=true; everything else is as in Spec.        *)
(***************************************************************************)
StrictListings == { << <<"bankwide", "/", "build.gradle", "\n">> >> }

StrictEnvs == { [STRICT_DEPRECATED_ROOTS |-> <<"true">>] }

CliGatherSignalsStrict == GatherSignalsStep(StrictListings, StrictEnvs)

StrictNext ==
    \/ CliDetectDiffMode
    \/ CliCollectChanged
    \/ CliCheckRequiredDocs
    \/ CliGatherSignalsStrict
    \/ CliEvaluate
    \/ CliRender

StrictSpec == Init /\ [][StrictNext]_vars

(***************************************************************************)
(* ReevalSpec: a caller evaluates a context, then evaluates it again or    *)
(* sets one more flag and evaluates that, at most MaxCalls calls in all.   *)
(* The lists of a result are objects of the heap, named by their address.  *)
(***************************************************************************)
\* fault variant: the two lists are made once and shared by every result
new_result_SharedLists(h) ==
    IF Len(h) >= 2 THEN [heap |-> h, errors |-> 1, warnings |-> 2]
    ELSE [heap |-> h \o << <<>>, <<>> >>, errors |-> Len(h) + 1, warnings |-> Len(h) + 2]

\* result = ValidationResult(): each default_factory=list makes a new empty list
new_result(h) ==
    [heap |-> h \o << <<>>, <<>> >>, errors |-> Len(h) + 1, warnings |-> Len(h) + 2]

\* one file of each governed area, in a fixed order
AreaPaths ==
    << <<"archive", "/", "old.txt">>,
       <<"bankwide", "/", "build.gradle">>,
       <<"shared-kernel", "/", "x.java">>,
       <<"docs", "/", "architecture", "/", "adr", "/", "ADR-1.md">> >>

Listing(S) == SelectSeq(AreaPaths, LAMBDA p : p \in S)

ReevalContexts ==
    { [changed_files |-> Listing(changed),
       deleted_files |-> Listing(deleted),
       tracked_files |-> IF residual THEN <<AreaPaths[2]>> ELSE <<>>,
       settings_content |-> IF findings THEN s ELSE <<>>,
       allow_legacy_path_edits |-> flags["allow_legacy_path_edits"],
       allow_deprecated_root_changes |-> flags["allow_deprecated_root_changes"],
       allow_shared_foundation_change |-> flags["allow_shared_foundation_change"],
       strict_deprecated_roots |-> flags["strict_deprecated_roots"],
       legacy_use_case_hits |-> IF findings THEN <<l>> ELSE <<>>,
       openapi_dpop_issues |-> IF findings THEN <<d>> ELSE <<>>,
       openapi_structure_issues |-> IF findings THEN <<o>> ELSE <<>>] :
      changed \in SUBSET Range(AreaPaths),
      deleted \in SUBSET {AreaPaths[3], AreaPaths[4]},
      residual \in BOOLEAN, findings \in BOOLEAN,
      flags \in [Flags -> BOOLEAN],
      s \in {x \in SettingsSamples : has_deprecated_includes(x)},
      l \in LegacyHitSamples, d \in DpopIssueSamples, o \in StructureIssueSamples }

ReevalInit ==
    /\ pc = "build"
    /\ ctx \in ReevalContexts
    /\ result = ValidationResult
    /\ edits = 0
    /\ CliIdle

\* fault variant: the evaluator does not see the three allow flags
CallEvaluateContext_FlagsUnread ==
    /\ pc \in {"build", "evaluated"}
    /\ Len(evaluations) < MaxCalls
    /\ LET made == new_result(heap)
           found == evaluate_context([ctx EXCEPT !.allow_legacy_path_edits = FALSE,
                                                 !.allow_deprecated_root_changes = FALSE,
                                                 !.allow_shared_foundation_change = FALSE])
           filled == [made.heap EXCEPT ![made.errors] = @ \o found.errors,
                                       ![made.warnings] = @ \o found.warnings]
       IN  /\ heap' = filled
           /\ evaluations' =
                  Append(evaluations,
                         [context |-> ctx, errors |-> made.errors,
                          warnings |-> made.warnings])
           /\ result' = [errors |-> filled[made.errors],
                         warnings |-> filled[made.warnings]]
    /\ pc' = "evaluated"
    /\ UNCHANGED <<ctx, edits, mode, changed_files, deleted_files, calls, output,
                   cli_return, repo_docs, vcs, all_tracked_files, disk, lines,
                   operations, frame, verdict>>

\* result = evaluate_context(ctx): the result object is made, then filled
CallEvaluateContext ==
    /\ pc \in {"build", "evaluated"}
    /\ Len(evaluations) < MaxCalls
    /\ LET made == new_result(heap)
           found == evaluate_context(ctx)
           filled == [made.heap EXCEPT ![made.errors] = @ \o found.errors,
                                       ![made.warnings] = @ \o found.warnings]
       IN  /\ heap' = filled
           /\ evaluations' =
                  Append(evaluations,
                         [context |-> ctx, errors |-> made.errors,
                          warnings |-> made.warnings])
           /\ result' = [errors |-> filled[made.errors],
                         warnings |-> filled[made.warnings]]
    /\ pc' = "evaluated"
    /\ UNCHANGED <<ctx, edits, mode, changed_files, deleted_files, calls, output,
                   cli_return, repo_docs, vcs, all_tracked_files, disk, lines,
                   operations, frame, verdict>>

\* the caller sets one flag of the context it evaluated
FlipFlag ==
    /\ pc = "evaluated"
    /\ Len(evaluations) < MaxCalls
    /\ \E f \in Flags : ~ctx[f] /\ ctx' = [ctx EXCEPT ![f] = TRUE]
    /\ pc' = "build"
    /\ UNCHANGED <<result, edits>>
    /\ CliUnchanged

ReevalNext == CallEvaluateContext \/ FlipFlag

ReevalSpec == ReevalInit /\ [][ReevalNext]_vars

(***************************************************************************)
(* Vocabulary of the properties                                            *)
(***************************************************************************)
Titles(messages) == {messages[i].title : i \in 1..Len(messages)}

Count(messages, title) ==
    Cardinality({i \in 1..Len(messages) : messages[i].title = title})

DetailsOf(messages, title) ==
    {messages[i].details : i \in {j \in 1..Len(messages) : messages[j].title = title}}

\* f begins with prefix: some initial segment of f is the prefix
HasPrefix(f, prefix) == \E k \in 0..Len(f) : SubSeq(f, 1, k) = prefix

UnderAny(f, roots) == \E r \in roots : HasPrefix(f, r)

RestrictedRoots == {<<"archive", "/">>, <<"temp-src", "/">>, <<"simple-test", "/">>}

DeprecatedRoots ==
    {<<"bankwide", "/">>, <<"bank-wide-services", "/">>,
     <<"loan-service", "/">>, <<"payment-service", "/">>}

SharedRoots == {<<"shared-kernel", "/">>, <<"shared-infrastructure", "/">>}

AdrRoots ==
    {<<"docs", "/", "architecture", "/", "adr", "/">>,
     <<"docs", "/", "architecture", "/", "decisions", "/">>}

\* the README.md directly at one of the roots
RootReadmes(roots) == {r \o <<"README.md">> : r \in roots}

\* blocked by a rule set: in scope, not the root's README, not deleted
Blocked(f, roots, deleted) ==
    /\ UnderAny(f, roots)
    /\ f \notin RootReadmes(roots)
    /\ f \notin deleted

BlockedList(changed, roots, deleted) ==
    SelectSeq(changed, LAMBDA f : Blocked(f, roots, deleted))

Deleted == Range(ctx.deleted_files)

Evaluated == pc = "evaluated"

(***************************************************************************)
(* C1: for both rule sets (restricted, deprecated-root),                   *)
(* collect_blocked_changes returns exactly the changed paths that start    *)
(* with a prefix of the rule set, are not the README.md at one of its      *)
(* roots and are not deleted, in the order of the change set; the detail   *)
(* lines of the two blocking errors are these lists.                       *)
(***************************************************************************)
C1_BlockedExactly ==
    Evaluated =>
        /\ collect_blocked_changes(ctx.changed_files, RESTRICTED_PATTERNS,
                                   RESTRICTED_ALLOWED_FILES, Deleted)
             = BlockedList(ctx.changed_files, RestrictedRoots, Deleted)
        /\ collect_blocked_changes(ctx.changed_files, DEPRECATED_ROOT_PATTERNS,
                                   DEPRECATED_ALLOWED_FILES, Deleted)
             = BlockedList(ctx.changed_files, DeprecatedRoots, Deleted)
        /\ DetailsOf(result.errors, ERR_FROZEN)
             \subseteq {BlockedList(ctx.changed_files, RestrictedRoots, Deleted)}
        /\ DetailsOf(result.errors, ERR_DEPRECATED)
             \subseteq {BlockedList(ctx.changed_files, DeprecatedRoots, Deleted)}

\* a change set holding a blocked path and an exempt README
C1_Witness ==
    /\ Evaluated
    /\ ctx.changed_files = << <<"archive", "/", "README.md">>,
                              <<"archive", "/", "old.txt">> >>
    /\ DetailsOf(result.errors, ERR_FROZEN) = { << <<"archive", "/", "old.txt">> >> }

(***************************************************************************)
(* C2: when some changed path is blocked by the restricted rule set and    *)
(* allow_legacy_path_edits is false, the result has exit_code 1 and        *)
(* exactly one "frozen legacy paths" error, which lists every such path;   *)
(* for changed files ["archive/old.txt"] and nothing else set it is the    *)
(* only error.                                                             *)
(***************************************************************************)
C2_RestrictedBlocks ==
    Evaluated =>
        /\ ( /\ \E i \in 1..Len(ctx.changed_files) :
                    Blocked(ctx.changed_files[i], RestrictedRoots, Deleted)
             /\ ~ctx.allow_legacy_path_edits )
           => /\ exit_code(result) = 1
              /\ Count(result.errors, ERR_FROZEN) = 1
              /\ \A i \in 1..Len(ctx.changed_files) :
                     Blocked(ctx.changed_files[i], RestrictedRoots, Deleted)
                     => \A d \in DetailsOf(result.errors, ERR_FROZEN) :
                            ctx.changed_files[i] \in Range(d)
        /\ ctx = [ValidationContext EXCEPT
                      !.changed_files = << <<"archive", "/", "old.txt">> >>]
           => result.errors =
                  << Message(ERR_FROZEN, << <<"archive", "/", "old.txt">> >>) >>

C2_Witness ==
    /\ Evaluated
    /\ ctx = [ValidationContext EXCEPT
                  !.changed_files = << <<"archive", "/", "old.txt">> >>]
    /\ Len(result.errors) = 1
    /\ exit_code(result) = 1

(***************************************************************************)
(* C3: a path under a restricted or deprecated-root prefix that is both    *)
(* changed and deleted is in no blocked-change list, and a change set      *)
(* whose in-scope paths are all deleted (or root READMEs) gets no "frozen  *)
(* legacy paths" / "deprecated roots" error, whatever the flags and the    *)
(* other paths are.                                                        *)
(***************************************************************************)
C3_DeletedNeverBlocks ==
    Evaluated =>
        /\ \A f \in Range(ctx.changed_files) \cap Deleted :
               \A d \in DetailsOf(result.errors, ERR_FROZEN)
                        \cup DetailsOf(result.errors, ERR_DEPRECATED) :
                   f \notin Range(d)
        /\ (\A f \in Range(ctx.changed_files) :
                UnderAny(f, RestrictedRoots)
                => f \in Deleted \cup RootReadmes(RestrictedRoots))
           => ERR_FROZEN \notin Titles(result.errors)
        /\ (\A f \in Range(ctx.changed_files) :
                UnderAny(f, DeprecatedRoots)
                => f \in Deleted \cup RootReadmes(DeprecatedRoots))
           => ERR_DEPRECATED \notin Titles(result.errors)

\* a deleted deprecated-root file beside a modified one: only the latter is listed
C3_Witness ==
    /\ Evaluated
    /\ <<"bankwide", "/", "build.gradle">> \in Range(ctx.changed_files) \cap Deleted
    /\ DetailsOf(result.errors, ERR_DEPRECATED)
         = { << <<"loan-service", "/", "code.java">> >> }

(***************************************************************************)
(* C4: with allow_shared_foundation_change false the "Shared foundation    *)
(* changed without ADR/decision update" error is recorded iff the change   *)
(* set has a path under shared-kernel/ or shared-infrastructure/ and none  *)
(* under docs/architecture/adr/ or docs/architecture/decisions/; appending *)
(* any ADR-location path to the change set leaves no such error; and       *)
(* ["shared-kernel/x.java", "docs/architecture/adr/ADR-1.md"] alone gives  *)
(* zero errors and exit code 0.                                            *)
(***************************************************************************)
C4_SharedNeedsAdr ==
    (Evaluated /\ ~ctx.allow_shared_foundation_change) =>
        /\ ERR_SHARED \in Titles(result.errors)
           <=> /\ \E f \in Range(ctx.changed_files) : UnderAny(f, SharedRoots)
               /\ ~\E f \in Range(ctx.changed_files) : UnderAny(f, AdrRoots)
        /\ Count(result.errors, ERR_SHARED) <= 1
        /\ ERR_SHARED \in Titles(result.errors)
           => \A p \in {q \in Paths : UnderAny(q, AdrRoots)} :
                  ERR_SHARED \notin
                      Titles(evaluate_context(
                          [ctx EXCEPT !.changed_files = Append(@, p)]).errors)
        /\ ctx = [ValidationContext EXCEPT
                      !.changed_files =
                          << <<"shared-kernel", "/", "x.java">>,
                             <<"docs", "/", "architecture", "/", "adr", "/", "ADR-1.md">> >>]
           => result.errors = <<>> /\ exit_code(result) = 0

\* a shared-foundation change accompanied by a decision record
C4_Witness ==
    /\ Evaluated
    /\ ~ctx.allow_shared_foundation_change
    /\ \E f \in Range(ctx.changed_files) : UnderAny(f, SharedRoots)
    /\ <<"docs", "/", "architecture", "/", "decisions", "/", "D-1.md">>
           \in Range(ctx.changed_files)
    /\ result.errors = <<>>

(***************************************************************************)
(* C5: a manifest in which "include", a run of whitespace, a quote and the *)
(* name of a deprecated module follow one another always gets the          *)
(* "settings.gradle includes" error and exit code 1, under every           *)
(* combination of the four flags.                                          *)
(***************************************************************************)
DeprecatedModules == {"bankwide", "bank-wide-services", "loan-service", "payment-service"}

\* position i starts: include, whitespace+, ', module
IncludesAt(text, i) ==
    /\ text[i] = "include"
    /\ \E j \in (i + 2)..(Len(text) - 1) :
           /\ \A k \in (i + 1)..(j - 1) : text[k] \in Whitespace
           /\ text[j] = "'"
           /\ text[j + 1] \in DeprecatedModules

IncludesDeprecated(text) == \E i \in 1..Len(text) : IncludesAt(text, i)

C5_SettingsUnwaivable ==
    (Evaluated /\ IncludesDeprecated(ctx.settings_content)) =>
        /\ Count(result.errors, ERR_SETTINGS) = 1
        /\ exit_code(result) = 1

\* every flag set, and the inclusion split over two lines
C5_Witness ==
    /\ Evaluated
    /\ ctx.allow_legacy_path_edits
    /\ ctx.allow_deprecated_root_changes
    /\ ctx.allow_shared_foundation_change
    /\ ctx.strict_deprecated_roots
    /\ ctx.settings_content = <<"include", "\n", "'", "payment-service">>
    /\ ERR_SETTINGS \in Titles(result.errors)
    /\ exit_code(result) = 1

(***************************************************************************)
(* C6: when the tracked files hold a deprecated-root path that is not a    *)
(* README.md and not deleted, exactly one "Residual tracked files" warning *)
(* is recorded, whether or not the path is changed; the                    *)
(* STRICT_DEPRECATED_ROOTS error is recorded iff there is such a file and  *)
(* strict_deprecated_roots is set; with no such file there is neither.     *)
(***************************************************************************)
\* the file name is README.md
IsReadme(f) ==
    /\ Len(f) >= 2
    /\ f[Len(f)] = "README.md"
    /\ f[Len(f) - 1] = "/"

HasResidual ==
    \E f \in Range(ctx.tracked_files) :
        UnderAny(f, DeprecatedRoots) /\ ~IsReadme(f) /\ f \notin Deleted

C6_ResidualWarning ==
    Evaluated =>
        /\ HasResidual => Count(result.warnings, WARN_RESIDUAL) = 1
        /\ ERR_STRICT \in Titles(result.errors)
           <=> (HasResidual /\ ctx.strict_deprecated_roots)
        /\ Count(result.errors, ERR_STRICT) <= 1
        /\ ~HasResidual => result.warnings = <<>>

\* an untouched residual file under the strict flag
C6_Witness ==
    /\ Evaluated
    /\ ctx.changed_files = <<>>
    /\ ctx.tracked_files = << <<"bankwide", "/", "build.gradle">> >>
    /\ ctx.strict_deprecated_roots
    /\ Count(result.warnings, WARN_RESIDUAL) = 1
    /\ ERR_STRICT \in Titles(result.errors)

(***************************************************************************)
(* C7: find_residual_tracked_files reports every tracked path under a      *)
(* deprecated root that is not deleted and is not the README.md directly   *)
(* at that root; a README.md deeper under the root is reported.            *)
(***************************************************************************)
C7_OnlyRootReadmeExempt ==
    Evaluated =>
        LET expected ==
                SelectSeq(ctx.tracked_files,
                          LAMBDA f : /\ UnderAny(f, DeprecatedRoots)
                                     /\ f \notin RootReadmes(DeprecatedRoots)
                                     /\ f \notin Deleted)
        IN  /\ find_residual_tracked_files(ctx.tracked_files, Deleted) = expected
            /\ expected # <<>> => DetailsOf(result.warnings, WARN_RESIDUAL) = {expected}

(***************************************************************************)
(* Vocabulary of the cli properties                                        *)
(***************************************************************************)
\* the run is over: cli returned, or an exception left it
Ended == pc \in {"done", "raised"}

Called(name) == name \in Range(calls)

AllDocsExist == repo_docs = Range(REQUIRED_DOCS)

MissingDocLines ==
    LET missing == SelectSeq(REQUIRED_DOCS, LAMBDA doc : doc \notin repo_docs)
    IN  [i \in 1..Len(missing) |->
            Message("ERROR: Required governance document missing:", <<missing[i]>>)]

EndsWith(seq, tail) ==
    /\ Len(seq) >= Len(tail)
    /\ SubSeq(seq, Len(seq) - Len(tail) + 1, Len(seq)) = tail

ScannersRan ==
    /\ Called("scan_source_files_for_legacy_use_case_numbering")
    /\ Called("collect_openapi_dpop_issues")
    /\ Called("collect_openapi_structure_issues")

NothingAfterDiff ==
    /\ ~Called("exists REQUIRED_DOCS")
    /\ ~Called("read settings.gradle")
    /\ ~Called("git ls-files")
    /\ ~ScannersRan
    /\ ~Called("evaluate_context")

\* the full set of checks ran and its findings were rendered
FullRun ==
    /\ pc = "done"
    /\ changed_files # <<>>
    /\ AllDocsExist
    /\ ScannersRan
    /\ Called("evaluate_context")
    /\ result = evaluate_context(ctx)
    /\ \E closing \in {<<>>, <<Line("Repository governance checks passed.")>>} :
           EndsWith(output, result.warnings \o result.errors \o closing)
    /\ cli_return \in {0, 1}

\* the run stopped at the required-documents check
AbortedOnMissingDocs ==
    /\ pc = "done"
    /\ ~AllDocsExist
    /\ EndsWith(output, MissingDocLines)
    /\ cli_return = 1
    /\ ~ScannersRan
    /\ ~Called("evaluate_context")

\* the diff named no file and the run returned at once
NothingChanged ==
    /\ pc = "done"
    /\ changed_files = <<>>
    /\ cli_return = 0
    /\ NothingAfterDiff

\* reading settings.gradle raised out of cli
SettingsReadRaised ==
    /\ pc = "raised"
    /\ changed_files # <<>>
    /\ AllDocsExist
    /\ calls[Len(calls)] = "read settings.gradle"
    /\ ~ScannersRan
    /\ ~Called("evaluate_context")
    /\ cli_return = -1

(***************************************************************************)
(* C8: the exit code of a result is 1 iff it has errors and 0 otherwise,   *)
(* warnings do not count, and a cli run that evaluated returns exactly     *)
(* that code.                                                              *)
(***************************************************************************)
C8_ExitCodeIsErrors ==
    Called("evaluate_context") =>
        /\ exit_code(result) = (IF Len(result.errors) > 0 THEN 1 ELSE 0)
        /\ pc = "done" => cli_return = (IF Len(result.errors) > 0 THEN 1 ELSE 0)

\* a run with a warning and no error returns 0
C8_Witness ==
    /\ pc = "done"
    /\ Called("evaluate_context")
    /\ result.warnings # <<>>
    /\ result.errors = <<>>
    /\ cli_return = 0

(***************************************************************************)
(* C9 as stated: whenever a required governance document is missing, the   *)
(* run reports it and returns 1 without running the evaluator, whatever    *)
(* the change set is.                                                      *)
(***************************************************************************)
C9_MissingDocsAlwaysFatal ==
    (Ended /\ ~AllDocsExist) =>
        /\ cli_return = 1
        /\ EndsWith(output, MissingDocLines)
        /\ ~Called("evaluate_context")

(***************************************************************************)
(* C9 amended: whenever a required governance document is missing and the  *)
(* diff names at least one changed file, the run reports every missing     *)
(* document and returns 1, whatever the changed files are; neither the     *)
(* scanners nor the evaluator run.  (With no changed file the run has      *)
(* already returned 0 before the documents are looked at.)                 *)
(***************************************************************************)
C9_MissingDocsFatalOnceChanged ==
    /\ (Ended /\ ~AllDocsExist /\ changed_files # <<>>) =>
           /\ pc = "done"
           /\ cli_return = 1
           /\ EndsWith(output, MissingDocLines)
           /\ ~ScannersRan
           /\ ~Called("evaluate_context")
           /\ ctx = ValidationContext
    /\ Called("evaluate_context") => AllDocsExist

\* a change no rule objects to, and one document missing
C9_Witness ==
    /\ pc = "done"
    /\ changed_files = << <<"a.txt">> >>
    /\ repo_docs = Range(REQUIRED_DOCS) \ {REQUIRED_DOCS[2]}
    /\ cli_return = 1
    /\ output[Len(output)] =
           Message("ERROR: Required governance document missing:", <<REQUIRED_DOCS[2]>>)

C11_EmptyChangeSetFailsStrict ==
    (Ended /\ changed_files = <<>>) =>
        /\ Count(output, WARN_RESIDUAL) = 1
        /\ Count(output, ERR_STRICT) = 1
        /\ cli_return = 1

(***************************************************************************)
(* C11 amended: evaluate_context on the context with an empty change set,  *)
(* tracked files [bankwide/build.gradle] and strict_deprecated_roots set   *)
(* gives one residual-files warning, one error and exit code 1.  A cli run *)
(* in such a repository whose diff yields an empty change set returns 0 at *)
(* once and prints neither; a run whose change set is not empty, that      *)
(* lists the tracked file and whose diff does not delete it prints exactly *)
(* one residual-files warning and one STRICT_DEPRECATED_ROOTS error and    *)
(* returns 1.                                                              *)
(***************************************************************************)
C11_StrictScenario ==
    /\ LET r == evaluate_context(
                    [ValidationContext EXCEPT
                         !.tracked_files = << <<"bankwide", "/", "build.gradle">> >>,
                         !.strict_deprecated_roots = TRUE])
       IN  /\ r.warnings =
                  << Message(WARN_RESIDUAL, << <<"bankwide", "/", "build.gradle">> >>) >>
           /\ r.errors = << Message(ERR_STRICT, <<>>) >>
           /\ exit_code(r) = 1
    /\ (Ended /\ changed_files = <<>>) =>
           /\ NothingChanged
           /\ Count(output, WARN_RESIDUAL) = 0
           /\ Count(output, ERR_STRICT) = 0
    /\ ( /\ pc = "done"
         /\ Called("evaluate_context")
         /\ <<"bankwide", "/", "build.gradle">> \in Range(ctx.tracked_files)
         /\ <<"bankwide", "/", "build.gradle">> \notin Range(deleted_files) ) =>
           /\ changed_files # <<>>
           /\ ctx.strict_deprecated_roots
           /\ Count(output, WARN_RESIDUAL) = 1
           /\ Count(output, ERR_STRICT) = 1
           /\ cli_return = 1

\* the scenario's run: nothing changed, and the run passed
C11_Witness ==
    /\ pc = "done"
    /\ changed_files = <<>>
    /\ Called("git diff --name-only HEAD")
    /\ cli_return = 0
    /\ Count(output, WARN_RESIDUAL) = 0

(***************************************************************************)
(* C12: once collect_changed_and_deleted has returned an empty changed     *)
(* list (nothing changed, or the git diff command failed), the run is      *)
(* over: cli printed the nothing-to-check line and returned 0, and neither *)
(* the required-documents check, nor the manifest read, nor git ls-files,  *)
(* nor a scanner, nor evaluate_context ran.                                *)
(***************************************************************************)
C12_NoChangesPass ==
    (pc \notin {"cli", "collect"} /\ changed_files = <<>>) =>
        /\ pc = "done"
        /\ cli_return = 0
        /\ output[Len(output)] =
               Line("No changed files detected. Governance checks passed.")
        /\ NothingAfterDiff
        /\ calls[Len(calls)] = diff_commands(mode[1])[2]
        /\ ctx = ValidationContext
        /\ result = ValidationResult

\* a commit-range run with nothing changed passes although a document is missing
C12_Witness ==
    /\ pc = "done"
    /\ mode[1] = "commit-range"
    /\ changed_files = <<>>
    /\ ~AllDocsExist
    /\ cli_return = 0
    /\ ~Called("exists REQUIRED_DOCS")

(***************************************************************************)
(* C13: evaluate_context never short-circuits.  The errors of a result are *)
(* exactly the messages of those of the eight rules whose own condition    *)
(* holds of the context (restricted, deprecated-root, manifest includes,   *)
(* strict residual, shared foundation without ADR, legacy naming, DPoP,    *)
(* OpenAPI structure), each once and in that order; a rule's condition     *)
(* reads only the context, never the errors recorded before it.            *)
(***************************************************************************)
RuleTitles ==
    <<ERR_FROZEN, ERR_DEPRECATED, ERR_SETTINGS, ERR_STRICT, ERR_SHARED,
      ERR_LEGACY, ERR_DPOP, ERR_STRUCTURE>>

\* the condition of each rule, on the context alone
RuleHolds(c) ==
    LET gone == Range(c.deleted_files)
    IN  << /\ \E f \in Range(c.changed_files) : Blocked(f, RestrictedRoots, gone)
           /\ ~c.allow_legacy_path_edits,
           /\ \E f \in Range(c.changed_files) : Blocked(f, DeprecatedRoots, gone)
           /\ ~c.allow_deprecated_root_changes,
           IncludesDeprecated(c.settings_content),
           /\ \E f \in Range(c.tracked_files) :
                  UnderAny(f, DeprecatedRoots) /\ ~IsReadme(f) /\ f \notin gone
           /\ c.strict_deprecated_roots,
           /\ \E f \in Range(c.changed_files) : UnderAny(f, SharedRoots)
           /\ ~\E f \in Range(c.changed_files) : UnderAny(f, AdrRoots)
           /\ ~c.allow_shared_foundation_change,
           c.legacy_use_case_hits # <<>>,
           c.openapi_dpop_issues # <<>>,
           c.openapi_structure_issues # <<>> >>

TitlesInOrder(messages) == [i \in 1..Len(messages) |-> messages[i].title]

RECURSIVE TitlesOfRules(_, _)
TitlesOfRules(holds, k) ==
    IF k > Len(RuleTitles) THEN <<>>
    ELSE (IF holds[k] THEN <<RuleTitles[k]>> ELSE <<>>) \o TitlesOfRules(holds, k + 1)

C13_NoShortCircuit ==
    Evaluated =>
        /\ TitlesInOrder(result.errors) = TitlesOfRules(RuleHolds(ctx), 1)
        /\ \A k \in 1..Len(RuleTitles) : Count(result.errors, RuleTitles[k]) <= 1
        /\ DetailsOf(result.errors, ERR_LEGACY) \subseteq {ctx.legacy_use_case_hits}
        /\ DetailsOf(result.errors, ERR_DPOP) \subseteq {ctx.openapi_dpop_issues}
        /\ DetailsOf(result.errors, ERR_STRUCTURE) \subseteq {ctx.openapi_structure_issues}

\* three rules fire on one context and each is reported, the first and the last two
C13_Witness ==
    /\ Evaluated
    /\ TitlesInOrder(result.errors) = <<ERR_FROZEN, ERR_DPOP, ERR_STRUCTURE>>

(***************************************************************************)
(* Vocabulary of the resolver properties                                   *)
(***************************************************************************)
\* detect_diff_mode has returned and vcs holds what it read
Resolved == pc = "collect" /\ vcs.step = "detect"

\* the value, surrounding whitespace and letter case aside, is one of the spellings
Selects(value, spellings) ==
    SelectSeq(value, LAMBDA t : t \notin Whitespace) \in {<<w>> : w \in spellings}

\* the mode the five-step precedence gives, for a reading of "the override
\* selects staged / working-tree" and of the base revision of the last step
ByPrecedence(is_staged, is_working_tree, first_commit_base) ==
    IF is_staged THEN <<"staged", <<>>, <<>>>>
    ELSE IF is_working_tree THEN <<"working-tree", <<>>, <<>>>>
    ELSE IF vcs.env.GITHUB_BASE_SHA # <<>> /\ vcs.env.GITHUB_SHA # <<>>
         THEN <<"commit-range", vcs.env.GITHUB_BASE_SHA, vcs.env.GITHUB_SHA>>
    ELSE IF vcs.env.CI = <<>> THEN <<"working-tree", <<>>, <<>>>>
    ELSE IF vcs.rev_parse.returncode = 0
         THEN <<"commit-range", <<"HEAD~1">>, <<"HEAD">>>>
    ELSE <<"commit-range", first_commit_base, <<"HEAD">>>>

(***************************************************************************)
(* C14 as stated: the mode is picked by strict precedence: the override    *)
(* equal to staged or working-tree gives that mode with empty refs; else   *)
(* both GITHUB_BASE_SHA and GITHUB_SHA non-empty give commit-range with    *)
(* them; else CI empty gives working-tree; else HEAD~1 resolving gives     *)
(* commit-range HEAD~1..HEAD; else commit-range from the empty-tree object *)
(* id to HEAD.                                                             *)
(***************************************************************************)
C14_StrictPrecedence ==
    Resolved =>
        mode = ByPrecedence(vcs.env.GOVERNANCE_DIFF_MODE = <<"staged">>,
                            vcs.env.GOVERNANCE_DIFF_MODE = <<"working-tree">>,
                            <<EMPTY_TREE>>)

(***************************************************************************)
(* C14 amended: the same precedence, where the override is compared after  *)
(* its surrounding whitespace is dropped and its letters are lowered, and  *)
(* where the last step diffs from the empty-tree object id that git        *)
(* hash-object printed, or from the empty string when that command         *)
(* failed.  Git is asked about HEAD~1 only when the first three steps      *)
(* decide nothing.                                                         *)
(***************************************************************************)
C14_Precedence ==
    Resolved =>
        /\ mode = ByPrecedence(
                      Selects(vcs.env.GOVERNANCE_DIFF_MODE, {"staged", "STAGED"}),
                      Selects(vcs.env.GOVERNANCE_DIFF_MODE,
                              {"working-tree", "Working-Tree"}),
                      IF vcs.hash_object.returncode = 0
                      THEN <<EMPTY_TREE>> ELSE <<>>)
        /\ mode[1] \in {"staged", "working-tree"} => mode[2] = <<>> /\ mode[3] = <<>>
        /\ Called("git rev-parse --verify HEAD~1")
           <=> mode[3] = <<"HEAD">>
        /\ Called("git hash-object -t tree /dev/null")
           <=> (mode[3] = <<"HEAD">> /\ vcs.rev_parse.returncode # 0)

\* the override, written in capitals, wins over a revision pair and the CI flag
C14_Witness ==
    /\ Resolved
    /\ vcs.env = [GOVERNANCE_DIFF_MODE |-> <<" ", "STAGED", "\n">>,
                  GITHUB_BASE_SHA |-> <<"abc">>, GITHUB_SHA |-> <<"def">>,
                  CI |-> <<"true">>]
    /\ mode = <<"staged", <<>>, <<>>>>
    /\ calls = <<>>

\* collect_changed_and_deleted has returned and vcs holds the two git diff commands
Collected == vcs.step = "collect"

\* the paths a diff reports with status D, in the order of the diff
DeletedIn(diff) ==
    LET gone == SelectSeq(diff, LAMBDA entry : entry[1] = "D")
    IN  [i \in 1..Len(gone) |-> gone[i][2]]

(***************************************************************************)
(* C15: a git command that exits non-zero yields the empty list from       *)
(* command_lines, whatever it printed, and nothing is raised; so when the  *)
(* git diff --name-only command of collect_changed_and_deleted fails the   *)
(* changed list is empty and the run ends with return value 0, and when    *)
(* the --name-status command fails the deleted list is empty.              *)
(***************************************************************************)
C15_FailedVcsIsEmpty ==
    Collected =>
        /\ pc \in {"done", "docs"}
        /\ vcs.name_only.returncode # 0 =>
               /\ command_lines(vcs.name_only) = <<>>
               /\ changed_files = <<>>
               /\ pc = "done"
               /\ cli_return = 0
        /\ vcs.with_status.returncode # 0 =>
               /\ command_lines(vcs.with_status) = <<>>
               /\ deleted_files = <<>>

\* a diff of two files whose --name-only command exits with 128: the run passes
C15_Witness ==
    /\ Collected
    /\ vcs.name_only.returncode = 128
    /\ Len(vcs.name_only.stdout) = 2
    /\ vcs.with_status.returncode = 0
    /\ changed_files = <<>>
    /\ pc = "done"
    /\ cli_return = 0

(***************************************************************************)
(* C16: in every mode the deleted list is derived from the diff the        *)
(* changed list came from: it is exactly the paths that diff reports with  *)
(* status D, so every file that diff reports as deleted and that is in the *)
(* changed list is in the deleted list too.                                *)
(***************************************************************************)
C16_DeletedFromSameDiff ==
    (Collected /\ vcs.name_only.returncode = 0) =>
        /\ deleted_files = DeletedIn(vcs.diff)
        /\ \A f \in Range(DeletedIn(vcs.diff)) \cap Range(changed_files) :
               f \in Range(deleted_files)

(***************************************************************************)
(* Vocabulary of the OpenAPI properties                                    *)
(***************************************************************************)
\* from position j on, the line holds nothing but blanks
BlankFrom(line, j) == \A k \in j..Len(line) : line[k] \in {" ", "\t"}

\* a path marker: two spaces, a path, a colon
IsPathMarker(line) ==
    /\ Len(line) >= 4
    /\ line[1] = " " /\ line[2] = " "
    /\ line[3] \in SlashTokens
    /\ line[4] = ":"
    /\ BlankFrom(line, 5)

\* a verb marker: four spaces, an HTTP verb, a colon
IsVerbMarker(line) ==
    /\ Len(line) >= 6
    /\ \A k \in 1..4 : line[k] = " "
    /\ line[5] \in HttpVerbs
    /\ line[6] = ":"
    /\ BlankFrom(line, 7)

IsMarker(line) == IsPathMarker(line) \/ IsVerbMarker(line)

\* the verb markers that follow some path marker, in document order
Openers(doc) ==
    SelectSeq([i \in 1..Len(doc) |-> i],
              LAMBDA i : /\ IsVerbMarker(doc[i])
                         /\ \E j \in 1..(i - 1) : IsPathMarker(doc[j]))

\* the path of the last path marker before line i
PathBefore(doc, i) ==
    LET j == CHOOSE m \in 1..(i - 1) :
                 /\ IsPathMarker(doc[m])
                 /\ \A n \in (m + 1)..(i - 1) : ~IsPathMarker(doc[n])
    IN  <<doc[j][3]>>

\* the lines after line i up to the next marker line or the end
BodyAfter(doc, i) ==
    LET later == {e \in (i + 1)..Len(doc) : IsMarker(doc[e])}
        stop == IF later = {} THEN Len(doc) + 1
                ELSE CHOOSE e \in later : \A o \in later : e <= o
    IN  SubSeq(doc, i + 1, stop - 1)

\* the (path, method, body) triples of a document
OperationsOf(doc) ==
    LET at == Openers(doc)
    IN  [k \in 1..Len(at) |->
            <<PathBefore(doc, at[k]), doc[at[k]][5], join(BodyAfter(doc, at[k]))>>]

(***************************************************************************)
(* C19: extract_operation_blocks returns, in document order, one (path,    *)
(* method, body) triple for each 4-space-indented HTTP-verb marker line    *)
(* that comes after some 2-space-indented path marker; the path is that of *)
(* the most recent path marker and the body is the lines after the verb    *)
(* marker up to, not including, the next path-marker or verb-marker line   *)
(* or the end, whatever their depth.  A verb marker before any path marker *)
(* opens no block, and without path markers the list is empty.             *)
(***************************************************************************)
C19_BlocksAreMarkedOperations ==
    pc = "extracted" =>
        /\ operations = OperationsOf(lines)
        /\ Len(operations) =
               Cardinality({i \in 1..Len(lines) :
                               /\ IsVerbMarker(lines[i])
                               /\ \E j \in 1..(i - 1) : IsPathMarker(lines[j])})
        /\ (~\E j \in 1..Len(lines) : IsPathMarker(lines[j])) => operations = <<>>

\* a verb before any path opens nothing; two verbs under one path open two
\* blocks, the first ending at the second
C19_Witness ==
    /\ pc = "extracted"
    /\ lines = << Indent(4) \o <<"post", ":">>,
                  Indent(2) \o <<"/secure", ":">>,
                  Indent(4) \o <<"get", ":">>,
                  Indent(4) \o <<"post", ":">> >>
    /\ operations = << <<<<"/secure">>, "get", <<>>>>, <<<<"/secure">>, "post", <<>>>> >>

(***************************************************************************)
(* Vocabulary of the DPoP properties                                       *)
(***************************************************************************)
\* the number of leading spaces of a line
Depth(line) ==
    Cardinality({k \in 1..Len(line) : \A m \in 1..k : line[m] = " "})

\* a line of exactly this depth holding exactly these tokens
IsLineAt(line, depth, tokens) ==
    /\ Depth(line) = depth
    /\ Len(line) >= depth + Len(tokens)
    /\ SubSeq(line, depth + 1, depth + Len(tokens)) = tokens
    /\ BlankFrom(line, depth + Len(tokens) + 1)

\* a security: key indented by six spaces
IsSecurityLine(line) == IsLineAt(line, 6, <<"security", ":">>)

\* the lines of the operation opened at line i: those after it, up to the
\* first non-blank line that is not indented deeper than the verb
OwnLines(doc, i) ==
    LET out == {e \in (i + 1)..Len(doc) : doc[e] # <<>> /\ Depth(doc[e]) <= 4}
        stop == IF out = {} THEN Len(doc) + 1
                ELSE CHOOSE e \in out : \A o \in out : e <= o
    IN  SubSeq(doc, i + 1, stop - 1)

RefersToDpop(body) ==
    \E k \in 1..Len(body) :
        /\ "$ref" \in Range(body[k])
        /\ "#/components/parameters/DPoP" \in Range(body[k])

InlinesDpop(body) ==
    /\ \E k \in 1..Len(body) : contains(body[k], <<"name", ":", " ", "DPoP">>)
    /\ \E k \in 1..Len(body) : contains(body[k], <<"in", ":", " ", "header">>)
    /\ \E k \in 1..Len(body) : contains(body[k], <<"required", ":", " ", "true">>)

\* the operations marked security: that neither refer to nor inline DPoP
Unsatisfied(doc) ==
    {i \in Range(Openers(doc)) :
        /\ \E k \in 1..Len(OwnLines(doc, i)) : IsSecurityLine(OwnLines(doc, i)[k])
        /\ ~RefersToDpop(OwnLines(doc, i))
        /\ ~InlinesDpop(OwnLines(doc, i))}

\* the operations whose body has a 6-space-indented security: line
Protected(doc) ==
    {i \in Range(Openers(doc)) :
        \E k \in 1..Len(BodyAfter(doc, i)) : IsSecurityLine(BodyAfter(doc, i)[k])}

\* the components DPoP block: from the first 4-space DPoP: key to the next
\* 4-space key; valid when it declares name, in and required on 6-space lines
ValidComponents(doc) ==
    \E key \in 1..Len(doc) :
        /\ IsLineAt(doc[key], 4, <<"DPoP", ":">>)
        /\ \A e \in 1..(key - 1) : ~IsLineAt(doc[e], 4, <<"DPoP", ":">>)
        /\ LET IsKey(line) == /\ Depth(line) = 4
                              /\ Len(line) >= 6
                              /\ line[5] \in KeyTokens
                              /\ line[6] = ":"
                              /\ BlankFrom(line, 7)
               Within(e) == /\ e > key
                            /\ \A o \in (key + 1)..e : ~IsKey(doc[o])
           IN  /\ \E e \in 1..Len(doc) :
                      Within(e) /\ IsLineAt(doc[e], 6, <<"name", ":", " ", "DPoP">>)
               /\ \E e \in 1..Len(doc) :
                      Within(e) /\ IsLineAt(doc[e], 6, <<"in", ":", " ", "header">>)
               /\ \E e \in 1..Len(doc) :
                      Within(e) /\ IsLineAt(doc[e], 6, <<"required", ":", " ", "true">>)

MethodName == [get |-> "GET", post |-> "POST"]

\* '<spec>:<path> <METHOD> missing required DPoP header parameter'
OperationIssue(spec, doc, i) ==
    spec \o <<":">> \o PathBefore(doc, i)
         \o <<" ", MethodName[doc[i][5]], " ", "missing required DPoP header parameter">>

DocumentIssue(spec) ==
    spec \o <<":", " ", "components.parameters.DPoP missing or not required=true header">>

\* sample.yaml, the only tracked file, has been scanned
SampleScanned ==
    /\ pc = "scanned"
    /\ all_tracked_files = <<SamplePath>>
    /\ disk[SamplePath] = File(lines)

(***************************************************************************)
(* C17: for a document with exactly one operation that is marked with a    *)
(* 6-space security: line and neither refers to the DPoP component         *)
(* parameter nor inlines a DPoP header parameter,                          *)
(* collect_openapi_dpop_issues reports exactly one operation-level issue,  *)
(* the one of that operation, whether the components DPoP block is valid   *)
(* or not, followed by the document-level issue iff that block is absent   *)
(* or misconfigured.                                                       *)
(***************************************************************************)
C17_OneOperationIssue ==
    (SampleScanned /\ Cardinality(Unsatisfied(lines)) = 1) =>
        LET i == CHOOSE o \in Unsatisfied(lines) : TRUE
        IN  ctx.openapi_dpop_issues =
                <<OperationIssue(SamplePath, lines, i)>>
                \o (IF ValidComponents(lines) THEN <<>>
                    ELSE <<DocumentIssue(SamplePath)>>)

(***************************************************************************)
(* C18: the document-level issue is reported exactly once iff at least one *)
(* operation of the document is protected and the components DPoP block is *)
(* missing or invalid, however many operations are protected, and never    *)
(* more than once; a document with no protected operation yields no DPoP   *)
(* issue at all.                                                           *)
(***************************************************************************)
C18_DocumentIssueOnce ==
    SampleScanned =>
        LET issues == ctx.openapi_dpop_issues
            reported == {k \in 1..Len(issues) : issues[k] = DocumentIssue(SamplePath)}
        IN  /\ Cardinality(reported) <= 1
            /\ Cardinality(reported) = 1
                   <=> (Protected(lines) # {} /\ ~ValidComponents(lines))
            /\ Protected(lines) = {} => issues = <<>>

(***************************************************************************)
(* Vocabulary of the structural properties                                 *)
(***************************************************************************)
\* the line holds {} and nothing else but blanks
IsEmptyBraces(line) ==
    \E k \in 1..Len(line) :
        /\ line[k] = "{}"
        /\ \A m \in 1..Len(line) : m # k => line[m] \in {" ", "\t"}

\* a line 'paths: {}': paths: at the start of the line, then {}
HasEmptyPathsLine(doc) ==
    \E i \in 1..Len(doc) :
        /\ Len(doc[i]) >= 3
        /\ doc[i][1] = "paths" /\ doc[i][2] = ":"
        /\ IsEmptyBraces(SubSeq(doc[i], 3, Len(doc[i])))

\* paths: at the start of a line and {} as the next thing after it, on the
\* same line or after a line break and blank lines
HasEmptyPathsMarker(doc) ==
    \/ HasEmptyPathsLine(doc)
    \/ \E i \in 1..Len(doc), j \in 1..Len(doc) :
          /\ i < j
          /\ Len(doc[i]) >= 2
          /\ doc[i][1] = "paths" /\ doc[i][2] = ":"
          /\ BlankFrom(doc[i], 3)
          /\ \A e \in (i + 1)..(j - 1) : BlankFrom(doc[e], 1)
          /\ IsEmptyBraces(doc[j])

\* the issue text of a required spec, <<>> when it passes; paths_empty tells
\* whether the content of the spec counts as empty paths
FirstFailingCheck(spec, paths_empty) ==
    IF spec \notin Range(all_tracked_files) THEN "required OpenAPI spec is not tracked"
    ELSE IF disk[spec].kind \in {"absent", "dir"}
    THEN "required OpenAPI spec file is missing"
    ELSE IF disk[spec].kind = "unreadable" THEN "unable to read OpenAPI spec"
    ELSE IF paths_empty THEN "paths are empty (paths: {})"
    ELSE IF \A k \in 1..Len(disk[spec].lines) : ~IsPathMarker(disk[spec].lines[k])
    THEN "no concrete API paths found under paths"
    ELSE ""

\* issues holds, in the order of the required specs, exactly the issue of
\* each spec whose first failing check is named by failing
OnePerFailingSpec(issues, failing) ==
    LET failed == SelectSeq(NON_EMPTY_OPENAPI_SPECS, LAMBDA spec : failing[spec] # "")
    IN  /\ issues = [k \in 1..Len(failed) |->
                        failed[k] \o <<":", " ", failing[failed[k]]>>]
        /\ Len(issues) <= Len(NON_EMPTY_OPENAPI_SPECS)
        /\ issues = <<>> <=> \A spec \in Range(NON_EMPTY_OPENAPI_SPECS) : failing[spec] = ""

C22_PassedLineOnlyOnSuccess ==
    LET passed == Line("Repository governance checks passed.")
        printed == {k \in 1..Len(output) : output[k] = passed}
    IN  /\ printed # {} =>
               /\ pc = "done"
               /\ cli_return = 0
               /\ printed = {Len(output)}
        /\ cli_return = 1 => printed = {}
        /\ (pc = "done" /\ Called("evaluate_context")) =>
               /\ printed # {} <=> result.errors = <<>>
               /\ EndsWith(output,
                           result.warnings \o result.errors
                           \o (IF result.errors = <<>> THEN <<passed>> ELSE <<>>))

\* a run that evaluated, printed its warnings and closed with the line
C22_Witness ==
    /\ pc = "done"
    /\ Called("evaluate_context")
    /\ Len(result.warnings) > 0
    /\ Len(output) > Len(result.warnings)
    /\ output[Len(output)] = Line("Repository governance checks passed.")
    /\ SubSeq(output, Len(output) - Len(result.warnings), Len(output) - 1)
           = result.warnings

(***************************************************************************)
(* C24: in every cli run the VCS invocations and the file reads (the diff, *)
(* the existence check of the required documents, the manifest, the        *)
(* tracked-file listings, the legacy scan and the two OpenAPI scans) all   *)
(* come before the call of evaluate_context; once the evaluator has been   *)
(* called the run makes no further call or read, it only prints and        *)
(* returns.                                                                *)
(***************************************************************************)
C24_IoBeforeEvaluation ==
    /\ \A k \in 1..Len(calls) :
           calls[k] = "evaluate_context" =>
               LET before == Range(SubSeq(calls, 1, k - 1))
               IN  /\ k = Len(calls)
                   /\ Range(diff_commands(mode[1])) \subseteq before
                   /\ { "exists REQUIRED_DOCS",
                        "git ls-files bankwide bank-wide-services loan-service payment-service",
                        "git ls-files",
                        "scan_source_files_for_legacy_use_case_numbering",
                        "collect_openapi_dpop_issues",
                        "collect_openapi_structure_issues" } \subseteq before
                   /\ ctx.settings_content # <<>> => "read settings.gradle" \in before
    /\ pc = "render" => Called("evaluate_context")
    /\ (pc = "done" /\ result # ValidationResult) => Called("evaluate_context")

\* a run that read the manifest, evaluated, then printed an error and returned
C24_Witness ==
    /\ pc = "done"
    /\ calls[Len(calls)] = "evaluate_context"
    /\ Called("read settings.gradle")
    /\ Len(result.errors) > 0
    /\ EndsWith(output, result.errors)
    /\ cli_return = 1

(***************************************************************************)
(* Vocabulary of the properties of repeated evaluation                     *)
(***************************************************************************)
\* what the k-th call of evaluate_context returned, as the lists now read
Returned(k) ==
    [errors |-> heap[evaluations[k].errors], warnings |-> heap[evaluations[k].warnings]]

\* the addresses of the lists of the k-th result
ListsOf(k) == {evaluations[k].errors, evaluations[k].warnings}

(***************************************************************************)
(* C23: evaluate_context is idempotent and free of side effects: calls on  *)
(* equal contexts return equal results, with the same errors and warnings  *)
(* in the same order; the lists of a result are new and shared with no     *)
(* earlier result, so an earlier result still reads as it was returned;    *)
(* and the context is the same after the call as before it.                *)
(***************************************************************************)
C23_IdempotentEvaluation ==
    /\ \A i, j \in 1..Len(evaluations) :
           /\ evaluations[i].context = evaluations[j].context
                  => Returned(i) = Returned(j)
           /\ i # j => ListsOf(i) \cap ListsOf(j) = {}
    /\ \A k \in 1..Len(evaluations) :
           /\ Cardinality(ListsOf(k)) = 2
           /\ Returned(k) = evaluate_context(evaluations[k].context)
    /\ pc = "evaluated" =>
           /\ ctx = evaluations[Len(evaluations)].context
           /\ result = Returned(Len(evaluations))

\* the same context evaluated twice, with an error and a warning each time
C23_Witness ==
    /\ pc = "evaluated"
    /\ Len(evaluations) = 2
    /\ evaluations[1].context = evaluations[2].context
    /\ Returned(1) = Returned(2)
    /\ Len(Returned(2).errors) > 1
    /\ Len(Returned(2).warnings) > 0
    /\ ListsOf(1) \cap ListsOf(2) = {}

\* the changed files of a context under these roots, deleted or not
ChangedUnder(c, roots) == SelectSeq(c.changed_files, LAMBDA f : UnderAny(f, roots))

\* the three waivers of the k-th call hold
WaiversHold(k) ==
    LET c == evaluations[k].context
        titles == Titles(Returned(k).errors)
    IN  /\ c.allow_legacy_path_edits => ERR_FROZEN \notin titles
        /\ c.allow_deprecated_root_changes => ERR_DEPRECATED \notin titles
        /\ c.allow_shared_foundation_change => ERR_SHARED \notin titles

\* the k-th context touches all three areas and sets all three allow flags
TouchesAllWaived(k) ==
    LET c == evaluations[k].context
    IN  /\ ChangedUnder(c, RestrictedRoots) # <<>>
        /\ ChangedUnder(c, DeprecatedRoots) # <<>>
        /\ ChangedUnder(c, SharedRoots) # <<>>
        /\ c.allow_legacy_path_edits
        /\ c.allow_deprecated_root_changes
        /\ c.allow_shared_foundation_change

\* none of the rules without a waiver fails on the k-th context
NothingElseFails(k) ==
    LET c == evaluations[k].context
    IN  /\ ~IncludesDeprecated(c.settings_content)
        /\ c.legacy_use_case_hits = <<>>
        /\ c.openapi_dpop_issues = <<>>
        /\ c.openapi_structure_issues = <<>>
        /\ \/ ~c.strict_deprecated_roots
           \/ ~\E f \in Range(c.tracked_files) :
                  /\ UnderAny(f, DeprecatedRoots)
                  /\ ~IsReadme(f)
                  /\ f \notin Range(c.deleted_files)

(***************************************************************************)
(* C25 as stated: each allow flag waives its rule for every change set     *)
(* (no 'frozen legacy paths', 'deprecated roots' or 'Shared foundation     *)
(* changed' error with its flag set), so a change set touching all three   *)
(* areas with all three flags set exits 0.                                 *)
(***************************************************************************)
C25_WaivedChangeSetPasses ==
    \A k \in 1..Len(evaluations) :
        /\ WaiversHold(k)
        /\ TouchesAllWaived(k) => exit_code(Returned(k)) = 0

(***************************************************************************)
(* C25, amended: each allow flag waives its rule for every change set, and *)
(* a change set touching all three areas with all three flags set exits 0  *)
(* when no rule without a waiver fails: no deprecated include in the       *)
(* manifest, no legacy-naming hit, no DPoP or structure issue, and no      *)
(* residual file under STRICT_DEPRECATED_ROOTS.                            *)
(***************************************************************************)
C25_WaiversHold ==
    \A k \in 1..Len(evaluations) :
        /\ WaiversHold(k)
        /\ TouchesAllWaived(k) =>
               (exit_code(Returned(k)) = 0 <=> NothingElseFails(k))

\* all three areas touched, all three flags set, no error
C25_Witness ==
    /\ pc = "evaluated"
    /\ TouchesAllWaived(Len(evaluations))
    /\ NothingElseFails(Len(evaluations))
    /\ result.errors = <<>>
    /\ exit_code(result) = 0

(***************************************************************************)
(* C28: the shared-foundation rule does not consult the deleted set.  A    *)
(* changed shared-kernel/ or shared-infrastructure/ path that is also      *)
(* deleted still counts: without an ADR change and without the flag the    *)
(* missing-ADR error is recorded and lists it.  A changed ADR-location     *)
(* path that is also deleted still counts as the accompanying ADR update:  *)
(* no missing-ADR error is recorded.                                       *)
(***************************************************************************)
C28_SharedRuleIgnoresDeleted ==
    \A k \in 1..Len(evaluations) :
        LET c == evaluations[k].context
            errors == Returned(k).errors
            gone == Range(c.changed_files) \cap Range(c.deleted_files)
        IN  /\ \A f \in gone :
                   (/\ UnderAny(f, SharedRoots)
                    /\ ChangedUnder(c, AdrRoots) = <<>>
                    /\ ~c.allow_shared_foundation_change)
                   => /\ Count(errors, ERR_SHARED) = 1
                      /\ \A d \in DetailsOf(errors, ERR_SHARED) : f \in Range(d)
            /\ \A f \in gone :
                   UnderAny(f, AdrRoots) => Count(errors, ERR_SHARED) = 0

\* the shared file is changed and deleted, and the error lists it
C28_Witness ==
    /\ pc = "evaluated"
    /\ AreaPaths[3] \in Range(ctx.changed_files) \cap Range(ctx.deleted_files)
    /\ DetailsOf(result.errors, ERR_SHARED) = {<<AreaPaths[3]>>}

\* the messages of a list whose title is not this one
Without(messages, title) == SelectSeq(messages, LAMBDA m : m.title # title)

\* the error a flag decides
OwnError ==
    [allow_legacy_path_edits |-> ERR_FROZEN,
     allow_deprecated_root_changes |-> ERR_DEPRECATED,
     allow_shared_foundation_change |-> ERR_SHARED,
     strict_deprecated_roots |-> ERR_STRICT]

(***************************************************************************)
(* C30: flipping one flag changes nothing but its own rule.  For two       *)
(* evaluated contexts that differ only in one flag, the warnings are       *)
(* identical and the errors are identical apart from the error that flag   *)
(* decides ('frozen legacy paths', 'deprecated roots', 'Shared foundation  *)
(* changed', STRICT_DEPRECATED_ROOTS); for contexts that differ only in    *)
(* flags, the manifest-include, legacy-naming, DPoP and OpenAPI-structure  *)
(* errors are identical.                                                   *)
(***************************************************************************)
C30_FlagDecidesOwnRuleOnly ==
    \A i, j \in 1..Len(evaluations) :
        LET c == evaluations[i].context
            d == evaluations[j].context
        IN  /\ \A f \in Flags :
                   (c[f] # d[f] /\ d = [c EXCEPT ![f] = d[f]]) =>
                       /\ Returned(i).warnings = Returned(j).warnings
                       /\ Without(Returned(i).errors, OwnError[f])
                              = Without(Returned(j).errors, OwnError[f])
            /\ (\A x \in DOMAIN c : x \notin Flags => c[x] = d[x]) =>
                   \A title \in {ERR_SETTINGS, ERR_LEGACY, ERR_DPOP, ERR_STRUCTURE} :
                       /\ DetailsOf(Returned(i).errors, title)
                              = DetailsOf(Returned(j).errors, title)
                       /\ Count(Returned(i).errors, title)
                              = Count(Returned(j).errors, title)

\* setting allow_legacy_path_edits removed the frozen-paths error and left
\* the deprecated-roots and legacy-naming errors as they were
C30_Witness ==
    /\ Len(evaluations) = 2
    /\ evaluations[2].context =
           [evaluations[1].context EXCEPT !.allow_legacy_path_edits = TRUE]
    /\ ~evaluations[1].context.allow_legacy_path_edits
    /\ {ERR_FROZEN, ERR_DEPRECATED, ERR_LEGACY} \subseteq Titles(Returned(1).errors)
    /\ ERR_FROZEN \notin Titles(Returned(2).errors)
    /\ {ERR_DEPRECATED, ERR_LEGACY} \subseteq Titles(Returned(2).errors)

(***************************************************************************)
(* C26: operation_requires_dpop returns true for a body iff the body has a *)
(* 6-space-indented security: line and either contains a $ref to           *)
(* '#/components/parameters/DPoP' or contains 'name: DPoP', 'in: header'   *)
(* and a 'required: true' line; false for every body without such a        *)
(* security: line and for one that refers only to other parameters.        *)
(***************************************************************************)
C26_RequiresDpopIff ==
    pc = "required" =>
        (verdict <=>
            /\ \E k \in 1..Len(lines) : IsSecurityLine(lines[k])
            /\ \/ RefersToDpop(lines)
               \/ InlinesDpop(lines))

(***************************************************************************)
(* C27: spec_has_required_dpop_parameter returns true iff the document has *)
(* a 4-space-indented DPoP: key under components parameters and the lines  *)
(* between that key and the next 4-space-indented sibling key (or the end  *)
(* of input) include, each on its own 6-space-indented line, name: DPoP,   *)
(* in: header and required: true.                                          *)
(***************************************************************************)
C27_DeclaredUnderParameters ==
    pc = "declared" =>
        (verdict <=>
            \E key \in 1..Len(lines) :
                /\ IsLineAt(lines[key], 4, <<"DPoP", ":">>)
                /\ \E p \in 1..(key - 1) :
                       /\ IsLineAt(lines[p], 2, <<"parameters", ":">>)
                       /\ \A o \in (p + 1)..(key - 1) :
                              lines[o] = <<>> \/ Depth(lines[o]) > 2
                /\ LET IsKey(line) == /\ Depth(line) = 4
                                      /\ Len(line) >= 6
                                      /\ line[5] \in KeyTokens
                                      /\ line[6] = ":"
                                      /\ BlankFrom(line, 7)
                       Within(e) == /\ e > key
                                    /\ \A o \in (key + 1)..e : ~IsKey(lines[o])
                       Declares(tokens) ==
                           \E e \in 1..Len(lines) :
                               Within(e) /\ IsLineAt(lines[e], 6, tokens)
                   IN  /\ Declares(<<"name", ":", " ", "DPoP">>)
                       /\ Declares(<<"in", ":", " ", "header">>)
                       /\ Declares(<<"required", ":", " ", "true">>))

\* the line holds the two-letter tag in some letter case, followed at once by
\* two digits
HasLegacyTag(line) ==
    \E k \in 1..(Len(line) - 3) :
        /\ line[k] \in {"U", "u"}
        /\ line[k + 1] \in {"C", "c"}
        /\ line[k + 2] \in Digits
        /\ line[k + 3] \in Digits

\* the hits reported for line i of file f
HitsAt(f, i) ==
    {k \in 1..Len(ctx.legacy_use_case_hits) :
        startswith(ctx.legacy_use_case_hits[k], f \o <<":", IndexText[i], ":", " ">>)}

(***************************************************************************)
(* C21: the legacy naming scanner matches the tag in any letter case: for  *)
(* every scannable tracked file that can be read, every line containing    *)
(* UC, Uc, uC or uc immediately followed by 2 to 3 digits is reported as a *)
(* hit, and a line with no such token is never reported.                   *)
(***************************************************************************)
C21_TagInAnyCase ==
    pc = "scanned" =>
        \A f \in Range(all_tracked_files) :
            (is_scannable_source_file(f) /\ disk[f].kind = "file") =>
                \A i \in 1..Len(disk[f].lines) :
                    HasLegacyTag(disk[f].lines[i]) <=> HitsAt(f, i) # {}

\* the lines the outer loop has passed: examined as line, or scanned into a block
Visited == 1..frame.index

(***************************************************************************)
(* C29: extract_operation_blocks terminates on every finite list of lines. *)
(* The scan index strictly increases on every iteration of the outer loop; *)
(* when a block is closed at the next marker the index jumps to a position *)
(* strictly after the verb marker, over lines that are no markers and make *)
(* up the block; so the loop ends, with the index at the end of the input  *)
(* and every line visited.                                                 *)
(***************************************************************************)
C29_LoopTerminates ==
    /\ [][(pc = "loop" /\ pc' = "loop") =>
             /\ frame'.index > frame.index
             /\ frame'.index <= Len(lines)
             /\ frame'.index > frame.index + 1 =>
                    /\ IsVerbMarker(lines[frame.index + 1])
                    /\ \A e \in (frame.index + 2)..frame'.index : ~IsMarker(lines[e])
                    /\ operations'[Len(operations')][3]
                           = join(SubSeq(lines, frame.index + 2, frame'.index))]_vars
    /\ [][pc' = "returned" => (frame'.index = Len(lines) /\ Visited' = 1..Len(lines))]_vars
    /\ <>(pc = "returned")

\* two blocks were closed, the first at the next verb marker after one line,
\* and the loop has ended at the end of the input
C29_Witness ==
    /\ pc = "returned"
    /\ Len(lines) = MaxLines
    /\ frame.index = Len(lines)
    /\ Len(operations) = 2
    /\ operations[1][3] # <<>>

====
